---- MODULE Spec2Model ----
(***************************************************************************)
(* cellSNP (src/cellsnp.c): the pileup / aggregation engine and the        *)
(* multi-worker shard, merge and rewrite protocol of run_mode_with_fetch.  *)
(*                                                                         *)
(* Encodings.                                                              *)
(*  - A base is its index 0..4 (A,C,G,T,N); a read carries 4-bit nt16      *)
(*    codes, converted by seq_nt16_idx2int.                                *)
(*  - A text line of a matrix file is a tuple of integers, one per         *)
(*    tab-separated field; the empty tuple is an empty line; a comment     *)
(*    line (leading '%') is a one-field tuple whose field is negative.     *)
(*  - A VCF line is a record of its columns.                               *)
(*  - A file name is a tuple: <<b>> for the final file of kind b and       *)
(*    <<b, i>> for "<name of b>.<i>".                                      *)
(*  - min_maf (a double) is a whole percentage: x < tc * min_maf is        *)
(*    100 * x < tc * min_maf.                                              *)
(***************************************************************************)
EXTENDS Integers, Sequences, FiniteSets, TLC

\* ------------------------------------------------------------------ bounds
MaxSnps == 3
MaxThreads == 3
MaxReads == 3
NumSamples == 2
MaxUmi == 2

\* ------------------------------------------------------- program constants
CSP_MIN_LEN == 30
CSP_MIN_MAPQ == 20
CSP_MAX_FLAG == 255

\* ------------------------------------------------------------- conversions
Bases == 0..4

seq_nt16_idx2int(c) ==
    CASE c = 1 -> 0 [] c = 2 -> 1 [] c = 4 -> 2 [] c = 8 -> 3 [] OTHER -> 4

seq_nt16_char2int(ch) ==
    CASE ch = "A" -> 0 [] ch = "C" -> 1 [] ch = "G" -> 2 [] ch = "T" -> 3 [] OTHER -> 4

seq_nt16_int2char(i) == <<"A", "C", "G", "T", "N">>[i + 1]

\* u < i where u is unsigned (size_t, uint32_t) and i is a signed int: the
\* int is converted to the unsigned type, so a negative i compares as a value
\* above every count the model reaches.
LtUnsignedInt(u, i) == IF i < 0 THEN TRUE ELSE u < i

RECURSIVE SumTo(_, _)
SumTo(f, n) == IF n < 0 THEN 0 ELSE f[n] + SumTo(f, n - 1)

Sum5(bc) == SumTo(bc, 4)

ZeroBc == [j \in Bases |-> 0]

\* ---------------------------------------------------------------- settings
use_barcodes(gs) == gs.cell_tag

use_sid(gs) == gs.sample_ids

use_umi(gs) == gs.umi_tag

nsample(gs) == IF use_barcodes(gs) THEN gs.nbarcode ELSE gs.nsid

\* ----------------------------------------------------------- read resolver
IsMatchOp(op) == op \in {"M", "=", "X"}

IsRefOnlyOp(op) == op \in {"D", "N"}

IsQueryOnlyOp(op) == op \in {"I", "S"}

\* The first loop over the CIGAR: stops at the first operation whose
\* reference end exceeds pos (brk), or runs off the end of the list.
RECURSIVE cigar_find(_, _, _, _, _, _)
cigar_find(cigar, k, x, y, laln, pos) ==
    IF k > Len(cigar)
    THEN [k |-> k, px |-> x, py |-> y, laln |-> laln, brk |-> FALSE,
          op |-> IF Len(cigar) = 0 THEN "?" ELSE cigar[Len(cigar)][1]]
    ELSE LET op == cigar[k][1]
             l  == cigar[k][2]
             x1 == IF IsMatchOp(op) \/ IsRefOnlyOp(op) THEN x + l ELSE x
             y1 == IF IsMatchOp(op) \/ IsQueryOnlyOp(op) THEN y + l ELSE y
             a1 == IF IsMatchOp(op) THEN laln + l ELSE laln
         IN  IF x1 > pos
             THEN [k |-> k, px |-> x, py |-> y, laln |-> a1, brk |-> TRUE, op |-> op]
             ELSE cigar_find(cigar, k + 1, x1, y1, a1, pos)

\* The second loop: aligned length of the operations after index k.
RECURSIVE cigar_rest(_, _)
cigar_rest(cigar, k) ==
    IF k > Len(cigar) THEN 0
    ELSE (IF IsMatchOp(cigar[k][1]) THEN cigar[k][2] ELSE 0) + cigar_rest(cigar, k + 1)

NoPileup(st) == [st |-> st, base |-> 0, qual |-> 0, laln |-> 0, qpos |-> 0]

\* Lines 393-412, with w what the first loop found.
pileup_at(w, qpos, laln, b, gs) ==
    IF ~w.brk THEN NoPileup(-9)
    ELSE IF IsRefOnlyOp(w.op) THEN NoPileup(2)
    ELSE IF LtUnsignedInt(laln, gs.min_len) THEN NoPileup(2)
    ELSE [st |-> 0, base |-> b.seq[qpos + 1], qual |-> b.qual[qpos + 1],
          laln |-> laln, qpos |-> qpos]

\* The offset inside the operation is left out.
pileup_found_op_start(w, pos, b, gs) ==
    pileup_at(w, w.py, w.laln + cigar_rest(b.cigar, w.k + 1), b, gs)

\* The operations after the one that covers pos are not added.
pileup_found_no_rest(w, pos, b, gs) ==
    pileup_at(w, w.py + (pos - w.px), w.laln, b, gs)

pileup_found(w, pos, b, gs) ==
    pileup_at(w, w.py + (pos - w.px), w.laln + cigar_rest(b.cigar, w.k + 1), b, gs)

\* The mapping quality is not looked at.
pileup_read_with_fetch_any_mapq(pos, b, gs) ==
    IF use_umi(gs) /\ b.umi = 0 THEN NoPileup(1)
    ELSE IF use_barcodes(gs) /\ b.cb = 0 THEN NoPileup(1)
    ELSE IF b.flag > gs.max_flag THEN NoPileup(2)
    ELSE IF ~(b.pos <= pos) THEN NoPileup(-9)
    ELSE pileup_found(cigar_find(b.cigar, 1, b.pos, 0, 0, pos), pos, b, gs)

\* The mapping quality and the flag are looked at before the tags.
pileup_read_with_fetch_tags_late(pos, b, gs) ==
    IF b.mapq < gs.min_mapq THEN NoPileup(2)
    ELSE IF b.flag > gs.max_flag THEN NoPileup(2)
    ELSE IF use_umi(gs) /\ b.umi = 0 THEN NoPileup(1)
    ELSE IF use_barcodes(gs) /\ b.cb = 0 THEN NoPileup(1)
    ELSE IF ~(b.pos <= pos) THEN NoPileup(-9)
    ELSE pileup_found(cigar_find(b.cigar, 1, b.pos, 0, 0, pos), pos, b, gs)

\* st: 0 success, 1 a required tag is missing, 2 filtered, -9 an assert fails.
pileup_read_with_fetch(pos, b, gs) ==
    IF use_umi(gs) /\ b.umi = 0 THEN NoPileup(1)
    ELSE IF use_barcodes(gs) /\ b.cb = 0 THEN NoPileup(1)
    ELSE IF b.mapq < gs.min_mapq THEN NoPileup(2)
    ELSE IF b.flag > gs.max_flag THEN NoPileup(2)
    ELSE IF ~(b.pos <= pos) THEN NoPileup(-9)
    ELSE pileup_found(cigar_find(b.cigar, 1, b.pos, 0, 0, pos), pos, b, gs)

\* -------------------------------------------------------------- GroupTable
EmptyPlp ==
    [bc |-> ZeroBc, tc |-> 0, ad |-> 0, dp |-> 0, oth |-> 0,
     hug |-> {}, qu |-> [j \in Bases |-> <<>>]]

\* csp_mplp_init + csp_mplp_prepare: one plp per roster entry.
csp_mplp_prepare(gs) ==
    [hsg |-> [g \in 1..nsample(gs) |-> EmptyPlp],
     bc |-> ZeroBc, tc |-> 0, ref_idx |-> -1, alt_idx |-> -1,
     inf_rid |-> -1, inf_aid |-> -1, ad |-> 0, dp |-> 0, oth |-> 0,
     nr_ad |-> 0, nr_dp |-> 0, nr_oth |-> 0]

\* The base is counted twice.
plp_count_twice(plp, base, qual) ==
    LET idx == seq_nt16_idx2int(base)
    IN  [plp EXCEPT !.bc[idx] = @ + 2, !.qu[idx] = Append(@, qual)]

\* Counting one base and quality into a plp (lines 295-297 and 300-302).
plp_count(plp, base, qual) ==
    LET idx == seq_nt16_idx2int(base)
    IN  [plp EXCEPT !.bc[idx] = @ + 1, !.qu[idx] = Append(@, qual)]

\* A barcode that is not in the roster goes to the first group.
push_group_first(cb, mplp, sid, gs) ==
    IF use_barcodes(gs) THEN (IF cb \in DOMAIN mplp.hsg THEN cb ELSE 1)
    ELSE IF use_sid(gs) THEN sid + 1
    ELSE -1

\* The group a read is pushed into: 0 when its barcode is not in the roster,
\* -1 when neither grouping is configured.
push_group(cb, mplp, sid, gs) ==
    IF use_barcodes(gs) THEN (IF cb \in DOMAIN mplp.hsg THEN cb ELSE 0)
    ELSE IF use_sid(gs) THEN sid + 1
    ELSE -1

\* A read is counted whether its UMI was seen or not.
push_into_every_read(g, b, p, mplp, gs) ==
    IF g = 0 THEN [r |-> 1, mplp |-> mplp]
    ELSE IF g < 0 THEN [r |-> -1, mplp |-> mplp]
    ELSE IF use_umi(gs)
         THEN [r |-> 0,
               mplp |-> [mplp EXCEPT !.hsg[g] =
                          plp_count([@ EXCEPT !.hug = @ \cup {b.umi}], p.base, p.qual)]]
         ELSE [r |-> 0, mplp |-> [mplp EXCEPT !.hsg[g] = plp_count(@, p.base, p.qual)]]

\* The quality of a read whose UMI was seen is kept all the same.
push_into_keeps_qual(g, b, p, mplp, gs) ==
    IF g = 0 THEN [r |-> 1, mplp |-> mplp]
    ELSE IF g < 0 THEN [r |-> -1, mplp |-> mplp]
    ELSE IF use_umi(gs)
         THEN IF b.umi \notin mplp.hsg[g].hug
              THEN [r |-> 0,
                    mplp |-> [mplp EXCEPT !.hsg[g] =
                               plp_count([@ EXCEPT !.hug = @ \cup {b.umi}], p.base, p.qual)]]
              ELSE [r |-> 0,
                    mplp |-> [mplp EXCEPT !.hsg[g].qu[seq_nt16_idx2int(p.base)] =
                                              Append(@, p.qual)]]
         ELSE [r |-> 0, mplp |-> [mplp EXCEPT !.hsg[g] = plp_count(@, p.base, p.qual)]]

\* A UMI seen in any sample group suppresses the read.
push_into_umi_any_group(g, b, p, mplp, gs) ==
    IF g = 0 THEN [r |-> 1, mplp |-> mplp]
    ELSE IF g < 0 THEN [r |-> -1, mplp |-> mplp]
    ELSE IF use_umi(gs)
         THEN IF \A h \in DOMAIN mplp.hsg : b.umi \notin mplp.hsg[h].hug
              THEN [r |-> 0,
                    mplp |-> [mplp EXCEPT !.hsg[g] =
                               plp_count([@ EXCEPT !.hug = @ \cup {b.umi}], p.base, p.qual)]]
              ELSE [r |-> 0, mplp |-> mplp]
         ELSE [r |-> 0, mplp |-> [mplp EXCEPT !.hsg[g] = plp_count(@, p.base, p.qual)]]

\* Lines 281-304, with g the group found by lines 275-280.
push_into(g, b, p, mplp, gs) ==
    IF g = 0 THEN [r |-> 1, mplp |-> mplp]
    ELSE IF g < 0 THEN [r |-> -1, mplp |-> mplp]
    ELSE IF use_umi(gs)
         THEN IF b.umi \notin mplp.hsg[g].hug
              THEN [r |-> 0,
                    mplp |-> [mplp EXCEPT !.hsg[g] =
                               plp_count([@ EXCEPT !.hug = @ \cup {b.umi}], p.base, p.qual)]]
              ELSE [r |-> 0, mplp |-> mplp]
         ELSE [r |-> 0, mplp |-> [mplp EXCEPT !.hsg[g] = plp_count(@, p.base, p.qual)]]

csp_mplp_push(b, p, mplp, sid, gs) == push_into(push_group(b.cb, mplp, sid, gs), b, p, mplp, gs)

\* ---------------------------------------------------------- AggregateStats
IdxOfMax(bc, S) == CHOOSE i \in S : \A j \in S : bc[j] < bc[i] \/ (bc[j] = bc[i] /\ i <= j)

\* The two bases with the highest and the second-highest count; of equal
\* counts the base that comes first in A,C,G,T,N wins.
csp_infer_allele(bc) ==
    LET rid == IdxOfMax(bc, Bases)
    IN  [rid |-> rid, aid |-> IdxOfMax(bc, Bases \ {rid})]

\* A quality value get_qual_vector refuses: the BAM marker of a missing quality.
qual_malformed(q) == q = 255

plp_qual_error(plp) == \E j \in Bases : \E l \in 1..Len(plp.qu[j]) : qual_malformed(plp.qu[j][l])

\* Lines 338-350 for group i, whose counts are ad, dp and oth.
RECURSIVE stat_groups(_, _, _)
\* Every sample group is counted, whether its value is zero or not.
stat_group_counts_all(m, i, ad, dp, oth, bad, gs) ==
    IF bad
    THEN [ret |-> -1,
          mplp |-> [m EXCEPT !.hsg[i] = [@ EXCEPT !.ad = ad, !.dp = dp, !.oth = oth],
                             !.nr_ad = @ + 1, !.nr_dp = @ + 1, !.nr_oth = @ + 1]]
    ELSE stat_groups([m EXCEPT !.hsg[i] = [@ EXCEPT !.ad = ad, !.dp = dp, !.oth = oth],
                               !.nr_ad = @ + 1, !.nr_dp = @ + 1, !.nr_oth = @ + 1],
                     i + 1, gs)

stat_group(m, i, ad, dp, oth, bad, gs) ==
    IF bad
    THEN [ret |-> -1,
          mplp |-> [m EXCEPT !.hsg[i] = [@ EXCEPT !.ad = ad, !.dp = dp, !.oth = oth],
                             !.nr_ad = IF ad # 0 THEN @ + 1 ELSE @,
                             !.nr_dp = IF dp # 0 THEN @ + 1 ELSE @,
                             !.nr_oth = IF oth # 0 THEN @ + 1 ELSE @]]
    ELSE stat_groups([m EXCEPT !.hsg[i] = [@ EXCEPT !.ad = ad, !.dp = dp, !.oth = oth],
                               !.nr_ad = IF ad # 0 THEN @ + 1 ELSE @,
                               !.nr_dp = IF dp # 0 THEN @ + 1 ELSE @,
                               !.nr_oth = IF oth # 0 THEN @ + 1 ELSE @],
                     i + 1, gs)

\* The loop of lines 336-350 from group i on.
stat_groups(m, i, gs) ==
    IF i > Cardinality(DOMAIN m.hsg) THEN [ret |-> 0, mplp |-> m]
    ELSE stat_group(m, i,
                    m.hsg[i].bc[m.alt_idx],
                    m.hsg[i].bc[m.ref_idx] + m.hsg[i].bc[m.alt_idx],
                    m.hsg[i].tc - (m.hsg[i].bc[m.ref_idx] + m.hsg[i].bc[m.alt_idx]),
                    gs.is_genotype /\ plp_qual_error(m.hsg[i]), gs)

\* The loops stop before the fifth base, N.
stat_sums_four_bases(mplp) ==
    LET bc == [j \in Bases |-> mplp.bc[j] + SumTo([g \in 0..Cardinality(DOMAIN mplp.hsg) |->
                                   IF g = 0 THEN 0 ELSE mplp.hsg[g].bc[j]],
                                   Cardinality(DOMAIN mplp.hsg))]
    IN  [mplp EXCEPT !.hsg = [g \in DOMAIN mplp.hsg |->
                                 [mplp.hsg[g] EXCEPT !.tc = @ + SumTo(mplp.hsg[g].bc, 3)]],
                     !.bc = bc,
                     !.tc = @ + SumTo(bc, 3)]

\* The sums of lines 320-327.
stat_sums(mplp) ==
    LET bc == [j \in Bases |-> mplp.bc[j] + SumTo([g \in 0..Cardinality(DOMAIN mplp.hsg) |->
                                   IF g = 0 THEN 0 ELSE mplp.hsg[g].bc[j]],
                                   Cardinality(DOMAIN mplp.hsg))]
    IN  [mplp EXCEPT !.hsg = [g \in DOMAIN mplp.hsg |-> [mplp.hsg[g] EXCEPT !.tc = @ + Sum5(mplp.hsg[g].bc)]],
                     !.bc = bc,
                     !.tc = @ + Sum5(bc)]

\* Line 335, then the loop over the sample groups.
stat_site(m, gs) ==
    stat_groups([m EXCEPT !.ad = m.bc[m.alt_idx],
                          !.dp = m.bc[m.ref_idx] + m.bc[m.alt_idx],
                          !.oth = m.tc - (m.bc[m.ref_idx] + m.bc[m.alt_idx])], 1, gs)

\* Only the index that is missing is taken from the inference.
stat_maf_each_index(m, gs) ==
    IF 100 * m.bc[m.inf_aid] < m.tc * gs.min_maf THEN [ret |-> 1, mplp |-> m]
    ELSE stat_site([m EXCEPT !.ref_idx = IF @ < 0 THEN m.inf_rid ELSE @,
                             !.alt_idx = IF @ < 0 THEN m.inf_aid ELSE @], gs)

\* Lines 330-334, with m the mplp after csp_infer_allele.
stat_maf(m, gs) ==
    IF 100 * m.bc[m.inf_aid] < m.tc * gs.min_maf THEN [ret |-> 1, mplp |-> m]
    ELSE IF m.ref_idx < 0 \/ m.alt_idx < 0
         THEN stat_site([m EXCEPT !.ref_idx = m.inf_rid, !.alt_idx = m.inf_aid], gs)
         ELSE stat_site(m, gs)

stat_infer(m, inf, gs) == stat_maf([m EXCEPT !.inf_rid = inf.rid, !.inf_aid = inf.aid], gs)

\* The total count is not compared with min_count.
stat_count_untested(m, gs) == stat_infer(m, csp_infer_allele(m.bc), gs)

\* Lines 328-329, with m the mplp after the sums.  mplp->tc is compared only
\* when npushed >= (size_t) min_count held, so min_count is not negative here.
stat_count(m, gs) ==
    IF m.tc < gs.min_count THEN [ret |-> 1, mplp |-> m]
    ELSE stat_infer(m, csp_infer_allele(m.bc), gs)

\* ret: 0 success, 1 filtered, -1 error.
csp_mplp_stat(mplp, gs) == stat_count(stat_sums(mplp), gs)

\* Only the sample groups are cleared: the site aggregate keeps its totals.
csp_mplp_reset_groups_only(mplp) ==
    [mplp EXCEPT !.hsg = [g \in DOMAIN mplp.hsg |-> EmptyPlp],
                 !.ref_idx = -1, !.alt_idx = -1, !.inf_rid = -1, !.inf_aid = -1]

\* csp_mplp_reset: counts zeroed, UMI sets cleared, the groups kept.
csp_mplp_reset(mplp) ==
    [mplp EXCEPT !.hsg = [g \in DOMAIN mplp.hsg |-> EmptyPlp],
                 !.bc = ZeroBc, !.tc = 0, !.ref_idx = -1, !.alt_idx = -1,
                 !.inf_rid = -1, !.inf_aid = -1, !.ad = 0, !.dp = 0, !.oth = 0,
                 !.nr_ad = 0, !.nr_dp = 0, !.nr_oth = 0]

\* -------------------------------------------------------------- SiteDriver
\* Lines 437-438 and the initial values of the locals; state 0 is "running".
snp_begin(snp, mplp) ==
    [mplp |-> [mplp EXCEPT !.ref_idx = IF snp.ref # "" THEN seq_nt16_char2int(snp.ref) ELSE -1,
                           !.alt_idx = IF snp.alt # "" THEN seq_nt16_char2int(snp.alt) ELSE -1],
     npushed |-> 0, state |-> 0]

\* Lines 453-454, with r what csp_mplp_push returned.
pushed(acc, r) ==
    IF r.r < 0 THEN [acc EXCEPT !.state = -1]
    ELSE IF r.r = 0 THEN [acc EXCEPT !.mplp = r.mplp, !.npushed = @ + 1]
    ELSE acc

\* Lines 449-455, with p what pileup_read_with_fetch returned.
read_pileuped(acc, p, b, i, gs) ==
    IF p.st = 0
    THEN IF ~use_barcodes(gs) /\ ~use_sid(gs) THEN [acc EXCEPT !.state = -1]
         ELSE pushed(acc, csp_mplp_push(b, p, acc.mplp, IF use_barcodes(gs) THEN -1 ELSE i, gs))
    ELSE IF p.st < 0 THEN [acc EXCEPT !.state = -1]
    ELSE acc

\* One iteration of the while loop of lines 445-456 on the read b of source i.
read_step(acc, b, i, pos, gs) == read_pileuped(acc, pileup_read_with_fetch(pos, b, gs), b, i, gs)

RECURSIVE reads_loop(_, _, _, _, _, _)
reads_loop(acc, reads, k, i, pos, gs) ==
    IF k > Len(reads) \/ acc.state # 0 THEN acc
    ELSE reads_loop(read_step(acc, reads[k], i, pos, gs), reads, k + 1, i, pos, gs)

\* Lines 457-458: the end of the iteration of one source.
source_end(a, src) ==
    IF a.state # 0 THEN a
    ELSE IF src.iter_ret < -1 THEN [a EXCEPT !.state = -1]
    ELSE a

\* One iteration of the for loop of lines 439-459 on source i (0-based).
source_step(acc, src, i, pos, gs) ==
    IF ~src.tid_ok THEN [acc EXCEPT !.state = 1]
    ELSE source_end(reads_loop(acc, src.reads, 1, i, pos, gs), src)

RECURSIVE sources_loop(_, _, _, _)
sources_loop(acc, snp, i, gs) ==
    IF i >= gs.nin \/ acc.state # 0 THEN acc
    ELSE sources_loop(source_step(acc, snp.src[i + 1], i, snp.pos, gs), snp, i + 1, gs)

stat_state(s) == [state |-> IF s.ret = 0 THEN 0 ELSE IF s.ret > 0 THEN 1 ELSE -1, mplp |-> s.mplp]

\* Lines 464-465: the count filter on npushed, then csp_mplp_stat.
snp_finish(acc, gs) ==
    IF acc.state # 0 THEN [state |-> acc.state, mplp |-> acc.mplp]
    ELSE IF LtUnsignedInt(acc.npushed, gs.min_count) THEN [state |-> 1, mplp |-> acc.mplp]
    ELSE stat_state(csp_mplp_stat(acc.mplp, gs))

\* state: 0 success, 1 filtered, negative error.
pileup_snp_with_fetch(snp, mplp, gs) ==
    snp_finish(sources_loop(snp_begin(snp, mplp), snp, 0, gs), gs)

\* ------------------------------------------------------------------- files
F_MTX_AD == 1
F_MTX_DP == 2
F_MTX_OTH == 3
F_VCF_BASE == 4
F_VCF_CELLS == 5

MtxKinds == {F_MTX_AD, F_MTX_DP, F_MTX_OTH}

\* The output kinds of a run: the cells VCF only when genotyping.
Kinds(gs) == IF gs.is_genotype THEN 1..F_VCF_CELLS ELSE 1..F_VCF_BASE

\* CSP_MTX_HEADER: two comment lines.
MtxHeader == << <<-1>>, <<-2>> >>

VcfLine(chr, pos, ref, alt, ad, dp, oth) ==
    [chr |-> chr, pos |-> pos, id |-> ".", ref |-> ref, alt |-> alt, qual |-> ".",
     filter |-> "PASS", ad |-> ad, dp |-> dp, oth |-> oth]

VcfHeaderLine(text) ==
    [chr |-> text, pos |-> 0, id |-> "", ref |-> "", alt |-> "", qual |-> "",
     filter |-> "", ad |-> 0, dp |-> 0, oth |-> 0]

\* CSP_VCF_BASE_HEADER and the column line written by main.
VcfBaseHeader == << VcfHeaderLine("##fileformat=VCFv4.2"), VcfHeaderLine("#CHROM") >>

CellsLine(line, format, cells) ==
    [chr |-> line.chr, pos |-> line.pos, id |-> line.id, ref |-> line.ref, alt |-> line.alt,
     qual |-> line.qual, filter |-> line.filter, ad |-> line.ad, dp |-> line.dp,
     oth |-> line.oth, format |-> format, cells |-> cells]

\* CSP_VCF_CELLS_HEADER, CSP_VCF_CELLS_CONTIG and the column line with the roster.
VcfCellsHeader(gs) ==
    << CellsLine(VcfHeaderLine("##fileformat=VCFv4.2"), "", <<>>),
       CellsLine(VcfHeaderLine("#CHROM"), "FORMAT", [g \in 1..nsample(gs) |-> [name |-> g]]) >>

\* The csp_fs_t of a final output as main leaves it: mode "ab", not a tmp file.
final_fs(b) == [fn |-> <<b>>, fm |-> "ab", is_tmp |-> FALSE]

\* The files main has written before run_mode_with_fetch is entered.
main_files(gs) ==
    [n \in {<<b>> : b \in Kinds(gs)} |->
        IF n[1] \in MtxKinds THEN MtxHeader
        ELSE IF n[1] = F_VCF_BASE THEN VcfBaseHeader
        ELSE VcfCellsHeader(gs)]

\* The suffix does not depend on the shard.
create_tmp_fs_same_name(fs0, idx) == [fn |-> Append(fs0.fn, 0), fm |-> "wb", is_tmp |-> TRUE]

create_tmp_fs(fs0, idx) == [fn |-> Append(fs0.fn, idx), fm |-> "wb", is_tmp |-> TRUE]

\* create_tmp_files for every kind: the structs of shard idx.
shard_files(gs, idx) == [b \in Kinds(gs) |-> create_tmp_fs(final_fs(b), idx)]

\* csp_fs_open in a writing mode: "wb" truncates, "ab" keeps what is there.
fs_open_w(files, f) ==
    IF f.fm = "wb" \/ f.fn \notin DOMAIN files
    THEN [n \in DOMAIN files \cup {f.fn} |-> IF n = f.fn THEN <<>> ELSE files[n]]
    ELSE files

RECURSIVE fs_open_all(_, _, _)
fs_open_all(files, out, b) ==
    IF b > Len(out) THEN files ELSE fs_open_all(fs_open_w(files, out[b]), out, b + 1)

fs_append(files, fn, lines) == [files EXCEPT ![fn] = @ \o lines]

fs_remove(files, names) == [n \in DOMAIN files \ names |-> files[n]]

\* ----------------------------------------------------------- serialisation
plp_field(plp, b) == IF b = F_MTX_AD THEN plp.ad ELSE IF b = F_MTX_DP THEN plp.dp ELSE plp.oth

\* csp_mplp_to_mtx for one matrix: a record per sample group with a nonzero
\* value; a tmp file gets no site index and an empty line ends the SNP.
RECURSIVE mtx_lines(_, _, _, _, _)
mtx_lines(mplp, b, is_tmp, idx, i) ==
    IF i > Cardinality(DOMAIN mplp.hsg) THEN (IF is_tmp THEN << <<>> >> ELSE <<>>)
    ELSE LET v == plp_field(mplp.hsg[i], b)
         IN  (IF v = 0 THEN <<>>
              ELSE IF is_tmp THEN << <<i, v>> >> ELSE << <<idx, i, v>> >>)
             \o mtx_lines(mplp, b, is_tmp, idx, i + 1)

csp_mplp_to_mtx(mplp, b, f, idx) == mtx_lines(mplp, b, f.is_tmp, idx, 1)

\* The record with the 0-based position of the list.
vcf_base_line_zero_based(snp, mplp) ==
    VcfLine(snp.chr, snp.pos, seq_nt16_int2char(mplp.ref_idx),
            seq_nt16_int2char(mplp.alt_idx), mplp.ad, mplp.dp, mplp.oth)

\* The ksprintf of lines 580-581.
vcf_base_line(snp, mplp) ==
    VcfLine(snp.chr, snp.pos + 1, seq_nt16_int2char(mplp.ref_idx),
            seq_nt16_int2char(mplp.alt_idx), mplp.ad, mplp.dp, mplp.oth)

\* csp_mplp_to_vcf: one column per sample group (GT and PL are left out).
csp_mplp_to_vcf(mplp) ==
    [g \in DOMAIN mplp.hsg |->
        [ad |-> mplp.hsg[g].ad, dp |-> mplp.hsg[g].dp, oth |-> mplp.hsg[g].oth,
         all |-> mplp.hsg[g].bc]]

vcf_cells_line(snp, mplp) ==
    CellsLine(vcf_base_line(snp, mplp), "GT:AD:DP:OTH:PL:ALL", csp_mplp_to_vcf(mplp))

\* The record of the base VCF is written twice.
snp_output_base_twice(snp, mplp, b, f, idx) ==
    IF b \in MtxKinds THEN csp_mplp_to_mtx(mplp, b, f, idx)
    ELSE IF b = F_VCF_BASE THEN << vcf_base_line(snp, mplp), vcf_base_line(snp, mplp) >>
    ELSE << vcf_cells_line(snp, mplp) >>

\* What lines 579-588 append to the output of kind b.
snp_output(snp, mplp, b, f, idx) ==
    IF b \in MtxKinds THEN csp_mplp_to_mtx(mplp, b, f, idx)
    ELSE IF b = F_VCF_BASE THEN << vcf_base_line(snp, mplp) >>
    ELSE << vcf_cells_line(snp, mplp) >>

\* ------------------------------------------------------------------- merge
\* The while loop of lines 688-695 over the lines of one tmp file from line j:
\* k is the running site ordinal, m the number of records, out the text printed.
RECURSIVE merge_lines(_, _, _, _, _)
\* The ordinal printed is 0-based.
merge_lines_zero_based(lines, j, k, m, out) ==
    IF j > Len(lines) THEN [k |-> k, m |-> m, out |-> out]
    ELSE IF Len(lines[j]) = 0
         THEN merge_lines(lines, j + 1, k + 1, m, out)
         ELSE merge_lines(lines, j + 1, k, m + 1, Append(out, <<k - 1>> \o lines[j]))

merge_lines(lines, j, k, m, out) ==
    IF j > Len(lines) THEN [k |-> k, m |-> m, out |-> out]
    ELSE IF Len(lines[j]) = 0
         THEN merge_lines(lines, j + 1, k + 1, m, out)
         ELSE merge_lines(lines, j + 1, k, m + 1, Append(out, <<k>> \o lines[j]))

\* The for loop of lines 686-697 from tmp file i (0-based) on.
RECURSIVE merge_mtx_loop(_, _, _, _, _, _)
merge_mtx_loop(files, in, n, i, k, acc) ==
    IF i >= n THEN [ret |-> 0, i |-> i, ns |-> k - 1, nr |-> acc.m, out |-> acc.out]
    ELSE IF in[i + 1].fn \notin DOMAIN files
         THEN [ret |-> -2, i |-> i, ns |-> 0, nr |-> 0, out |-> acc.out]
         ELSE LET r == merge_lines(files[in[i + 1].fn], 1, k, acc.m, acc.out)
              IN  merge_mtx_loop(files, in, n, i + 1, r.k, [m |-> r.m, out |-> r.out])

\* merge_mtx on an output that is already open: out is the text appended to it.
merge_mtx(files, in, n) == merge_mtx_loop(files, in, n, 0, 1, [m |-> 0, out |-> <<>>])

RECURSIVE merge_vcf_loop(_, _, _, _, _)
\* Each fragment is put before what was merged so far.
merge_vcf_loop_reversed(files, in, n, i, out) ==
    IF i >= n THEN [ret |-> 0, i |-> i, out |-> out]
    ELSE IF in[i + 1].fn \notin DOMAIN files THEN [ret |-> -2, i |-> i, out |-> out]
         ELSE merge_vcf_loop(files, in, n, i + 1, files[in[i + 1].fn] \o out)

merge_vcf_loop(files, in, n, i, out) ==
    IF i >= n THEN [ret |-> 0, i |-> i, out |-> out]
    ELSE IF in[i + 1].fn \notin DOMAIN files THEN [ret |-> -2, i |-> i, out |-> out]
         ELSE merge_vcf_loop(files, in, n, i + 1, out \o files[in[i + 1].fn])

merge_vcf(files, in, n) == merge_vcf_loop(files, in, n, 0, <<>>)

\* ----------------------------------------------------------------- rewrite
IsCommentLine(ln) == Len(ln) > 0 /\ ln[1] < 0

\* The number of lines the loop of lines 762-765 copies.
RECURSIVE comment_prefix(_, _)
comment_prefix(lines, c) ==
    IF c < Len(lines) /\ IsCommentLine(lines[c + 1]) THEN comment_prefix(lines, c + 1) ELSE c

\* rewrite_mtx: ret 0 and the rewritten file, or ret 1 with the file as it was
\* and the new file "<fn>.0" left behind.
\* The summary line is written after the line read last.
rewrite_text_late(lines, c, ns, nsmp, nr) ==
    SubSeq(lines, 1, c)
    \o (IF nr # 0 /\ c < Len(lines) THEN << lines[c + 1] >> ELSE <<>>)
    \o << <<ns, nsmp, nr>> >>
    \o SubSeq(lines, c + 2, Len(lines))

\* What lines 762-777 write to the new file when the old one holds lines, of
\* which the first c are comment lines: the line read last by the first loop
\* is written after the summary only when nr is not 0.
rewrite_text(lines, c, ns, nsmp, nr) ==
    SubSeq(lines, 1, c) \o << <<ns, nsmp, nr>> >>
    \o (IF nr # 0 /\ c < Len(lines) THEN << lines[c + 1] >> ELSE <<>>)
    \o SubSeq(lines, c + 2, Len(lines))

rewrite_at(files, f, new, lines, c, ns, nsmp, nr) ==
    IF (c >= Len(lines) \/ Len(lines[c + 1]) = 0) /\ nr # 0
    THEN [ret |-> 1,
          files |-> [n \in DOMAIN files \cup {new.fn} |->
                        IF n = new.fn THEN SubSeq(lines, 1, c) ELSE files[n]]]
    ELSE [ret |-> 0,
          files |-> [n \in DOMAIN files \ {new.fn} |->
                        IF n = f.fn THEN rewrite_text(lines, c, ns, nsmp, nr) ELSE files[n]]]

rewrite_mtx(files, f, ns, nsmp, nr) ==
    IF f.fn \notin DOMAIN files THEN [ret |-> -1, files |-> files]
    ELSE rewrite_at(files, f, create_tmp_fs(f, 0), files[f.fn],
                    comment_prefix(files[f.fn], 0), ns, nsmp, nr)

\* ------------------------------------------------------------------- state
VARIABLES
    gs,     \* global_settings: read-only once the run starts
    pl,     \* gs->pl, the SNP list
    fs,     \* the files of the output directory: name -> lines
    open,   \* the open file handles: [fn, by], by = shard index or Coord
    td,     \* thread_data of every shard, with the worker's position and mplp
    co,     \* run_mode_with_fetch: its position, locals and return value
    sd      \* one worker followed read by read (SpecSnp), or one input piled
            \* up under two filter settings (SpecFilter); NoSd in the runs of Spec

vars == <<gs, pl, fs, open, td, co, sd>>

\* The owner of the handles run_mode_with_fetch opens: no shard index.
Coord == MaxThreads

NoSd == [pc |-> "off"]

Shards == 0..(MaxThreads - 1)

\* thdata_init: a thread_data nobody has filled in.
NoTd ==
    [st |-> "none", n |-> 0, m |-> 0, ret |-> 0, ns |-> 0,
     nr_ad |-> 0, nr_dp |-> 0, nr_oth |-> 0, pos |-> 0, out |-> <<>>, mplp |-> <<>>]

\* Lines 843-846, 857-860 and 990-992: the shard [n, n + m) writing to out.
new_td(n, m, out) == [NoTd EXCEPT !.st = "queued", !.n = n, !.m = m, !.out = out]

td_nr(d, b) == IF b = F_MTX_AD THEN d.nr_ad ELSE IF b = F_MTX_DP THEN d.nr_dp ELSE d.nr_oth

handles(i, out) == {[fn |-> out[b].fn, by |-> i] : b \in DOMAIN out}

\* ------------------------------------------------------------------ worker
\* pileup_positions_with_fetch up to the SNP loop (lines 505-546).
worker_begin(d, g) ==
    [d EXCEPT !.st = "running", !.ret = -1, !.ns = 0, !.nr_ad = 0, !.nr_dp = 0, !.nr_oth = 0,
              !.pos = 0, !.mplp = << csp_mplp_prepare(g) >>]

WorkerStart(i) ==
    /\ td[i].st = "queued"
    /\ td' = [td EXCEPT ![i] = worker_begin(@, gs)]
    /\ fs' = fs_open_all(fs, td[i].out, 1)
    /\ open' = open \cup handles(i, td[i].out)
    /\ UNCHANGED <<gs, pl, co, sd>>

RECURSIVE write_outputs(_, _, _, _, _, _)
write_outputs(files, snp, mplp, out, idx, b) ==
    IF b > Len(out) THEN files
    ELSE write_outputs(fs_append(files, out[b].fn, snp_output(snp, mplp, b, out[b], idx)),
                       snp, mplp, out, idx, b + 1)

\* A filtered SNP is counted as a site, though nothing is written for it.
snp_done_counts_filtered(d, files, snp, r) ==
    IF r.state < 0
    THEN [td |-> [d EXCEPT !.st = "done", !.mplp = <<>>], fs |-> files, closed |-> TRUE]
    ELSE IF r.state # 0
    THEN [td |-> [d EXCEPT !.ns = @ + 1, !.mplp = << csp_mplp_reset(r.mplp) >>, !.pos = @ + 1],
          fs |-> files, closed |-> FALSE]
    ELSE [td |-> [d EXCEPT !.ns = @ + 1,
                           !.nr_ad = @ + r.mplp.nr_ad,
                           !.nr_dp = @ + r.mplp.nr_dp,
                           !.nr_oth = @ + r.mplp.nr_oth,
                           !.mplp = << csp_mplp_reset(r.mplp) >>,
                           !.pos = @ + 1],
          fs |-> write_outputs(files, snp, r.mplp, d.out, d.ns + 1, 1),
          closed |-> FALSE]

\* A SNP that failed is passed over like a filtered one.
snp_done_skips_failed(d, files, snp, r) ==
    IF r.state # 0
    THEN [td |-> [d EXCEPT !.mplp = << csp_mplp_reset(r.mplp) >>, !.pos = @ + 1],
          fs |-> files, closed |-> FALSE]
    ELSE [td |-> [d EXCEPT !.ns = @ + 1,
                           !.nr_ad = @ + r.mplp.nr_ad,
                           !.nr_dp = @ + r.mplp.nr_dp,
                           !.nr_oth = @ + r.mplp.nr_oth,
                           !.mplp = << csp_mplp_reset(r.mplp) >>,
                           !.pos = @ + 1],
          fs |-> write_outputs(files, snp, r.mplp, d.out, d.ns + 1, 1),
          closed |-> FALSE]

\* After a filtered SNP the loop does not move on to the next one.
snp_done_stays_on_filtered(d, files, snp, r) ==
    IF r.state < 0
    THEN [td |-> [d EXCEPT !.st = "done", !.mplp = <<>>], fs |-> files, closed |-> TRUE]
    ELSE IF r.state # 0
    THEN [td |-> [d EXCEPT !.mplp = << csp_mplp_reset(r.mplp) >>],
          fs |-> files, closed |-> FALSE]
    ELSE [td |-> [d EXCEPT !.ns = @ + 1,
                           !.nr_ad = @ + r.mplp.nr_ad,
                           !.nr_dp = @ + r.mplp.nr_dp,
                           !.nr_oth = @ + r.mplp.nr_oth,
                           !.mplp = << csp_mplp_reset(r.mplp) >>,
                           !.pos = @ + 1],
          fs |-> write_outputs(files, snp, r.mplp, d.out, d.ns + 1, 1),
          closed |-> FALSE]

\* Lines 566-590, with r what pileup_snp_with_fetch returned.
snp_done(d, files, snp, r) ==
    IF r.state < 0
    THEN [td |-> [d EXCEPT !.st = "done", !.mplp = <<>>], fs |-> files, closed |-> TRUE]
    ELSE IF r.state # 0
    THEN [td |-> [d EXCEPT !.mplp = << csp_mplp_reset(r.mplp) >>, !.pos = @ + 1],
          fs |-> files, closed |-> FALSE]
    ELSE [td |-> [d EXCEPT !.ns = @ + 1,
                           !.nr_ad = @ + r.mplp.nr_ad,
                           !.nr_dp = @ + r.mplp.nr_dp,
                           !.nr_oth = @ + r.mplp.nr_oth,
                           !.mplp = << csp_mplp_reset(r.mplp) >>,
                           !.pos = @ + 1],
          fs |-> write_outputs(files, snp, r.mplp, d.out, d.ns + 1, 1),
          closed |-> FALSE]

\* One iteration of the loop of lines 554-590 on shard d: the new thread_data
\* and files.
worker_snp(d, files, snps, g) ==
    snp_done(d, files, snps[d.n + d.pos + 1],
             pileup_snp_with_fetch(snps[d.n + d.pos + 1], d.mplp[1], g))

worker_step(i, r) ==
    /\ td' = [td EXCEPT ![i] = r.td]
    /\ fs' = r.fs
    /\ open' = IF r.closed THEN open \ handles(i, td[i].out) ELSE open

WorkerSnp(i) ==
    /\ td[i].st = "running"
    /\ td[i].pos < td[i].m
    /\ worker_step(i, worker_snp(td[i], fs, pl, gs))
    /\ UNCHANGED <<gs, pl, co, sd>>

\* The normal end of pileup_positions_with_fetch (lines 591-599).
WorkerEnd(i) ==
    /\ td[i].st = "running"
    /\ td[i].pos = td[i].m
    /\ td' = [td EXCEPT ![i] = [@ EXCEPT !.st = "done", !.ret = 0, !.mplp = <<>>]]
    /\ open' = open \ handles(i, td[i].out)
    /\ UNCHANGED <<gs, pl, fs, co, sd>>

Worker(i) == WorkerStart(i) \/ WorkerSnp(i) \/ WorkerEnd(i)

\* ------------------------------------------------------------ failed writes
IsBoundary(ln) == Len(ln) = 0

IsText(ln) == Len(ln) # 0

\* The lines of a SNP that reach a file when the writes of its records, or
\* the write of its closing empty line, fail.
lose(lines, what) ==
    IF what = "records" THEN SelectSeq(lines, IsBoundary) ELSE SelectSeq(lines, IsText)

\* The iteration r of worker_snp, but with a part of what it appended to the
\* file fn lost.
lost_write(r, before, fn, what) ==
    [r EXCEPT !.fs[fn] = before[fn] \o lose(SubSeq(@, Len(before[fn]) + 1, Len(@)), what)]

worker_lost(i, r, fn, what) ==
    /\ r.td.ns > td[i].ns
    /\ lost_write(r, fs, fn, what).fs # r.fs
    /\ worker_step(i, lost_write(r, fs, fn, what))

\* Line 579 drops what csp_mplp_to_mtx returns: when writing to a fragment
\* fails (a full disk), the SNP is counted in ns and nr_* all the same.
WorkerSnpLost(i) ==
    /\ td[i].st = "running"
    /\ td[i].pos < td[i].m
    /\ \E b \in MtxKinds : \E what \in {"records", "boundary"} :
          /\ td[i].out[b].is_tmp
          /\ worker_lost(i, worker_snp(td[i], fs, pl, gs), td[i].out[b].fn, what)
    /\ UNCHANGED <<gs, pl, co, sd>>

\* ------------------------------------------------------------- coordinator
CoInit ==
    [pc |-> "start", ret |-> 0, ntd |-> 0, npos |-> 0, b |-> 0, ns |-> 0,
     nr_ad |-> 0, nr_dp |-> 0, nr_oth |-> 0, ns_merge |-> 0, nr_merge |-> 0, warn |-> FALSE]

\* out_tmp_<kind>: the tmp file structs of kind b, one per thread.
tmp_files(b, n) == [i \in 1..n |-> create_tmp_fs(final_fs(b), i - 1)]

all_tmp_names(g) == {tmp_files(b, g.nthread)[i].fn : b \in Kinds(g), i \in 1..g.nthread}

\* Lines 806-836 and 954-992: the choice of the path.
CoStart ==
    /\ co.pc = "start"
    /\ IF gs.nthread > 1
       THEN /\ co' = [co EXCEPT !.pc = "submit"]
            /\ td' = td
       ELSE /\ co' = [co EXCEPT !.pc = "direct"]
            /\ td' = [td EXCEPT ![0] = new_td(0, Len(pl), [b \in Kinds(gs) |-> final_fs(b)])]
    /\ UNCHANGED <<gs, pl, fs, open, sd>>

\* Lines 838-865: one shard is created and handed to the pool.  The first
\* nthread - 1 shards hold floor(size / nthread) SNPs, the last one the rest.
\* Every shard holds floor(size / mtd) SNPs: the rest of the list is dropped.
shard_m_even(size, mtd, ntd, npos) == size \div mtd

\* The rest of the list goes to the first shard instead of the last.
shard_m_rest_first(size, mtd, ntd, npos) ==
    IF ntd = 0 THEN size - (mtd - 1) * (size \div mtd) ELSE size \div mtd

shard_m(size, mtd, ntd, npos) == IF ntd < mtd - 1 THEN size \div mtd ELSE size - npos

CoSubmit ==
    /\ co.pc = "submit"
    /\ IF co.ntd < gs.nthread - 1
       THEN /\ td' = [td EXCEPT ![co.ntd] =
                            new_td(co.npos, shard_m(Len(pl), gs.nthread, co.ntd, co.npos),
                                   shard_files(gs, co.ntd))]
            /\ co' = [co EXCEPT !.ntd = @ + 1,
                                !.npos = @ + shard_m(Len(pl), gs.nthread, co.ntd, co.npos)]
       ELSE IF Len(pl) - co.npos > 0
       THEN /\ td' = [td EXCEPT ![co.ntd] =
                            new_td(co.npos, shard_m(Len(pl), gs.nthread, co.ntd, co.npos),
                                   shard_files(gs, co.ntd))]
            /\ co' = [co EXCEPT !.ntd = @ + 1, !.pc = "wait"]
       ELSE /\ td' = td
            /\ co' = [co EXCEPT !.pc = "wait"]
    /\ UNCHANGED <<gs, pl, fs, open, sd>>

\* The wait returns at once.
thpool_wait_skipped(t) == TRUE

\* thpool_wait: returns once no job is queued or running.
thpool_wait(t) == \A i \in Shards : t[i].st \notin {"queued", "running"}

\* Line 866.
CoWait ==
    /\ co.pc = "wait"
    /\ thpool_wait(td)
    /\ co' = [co EXCEPT !.pc = "check"]
    /\ UNCHANGED <<gs, pl, fs, open, td, sd>>

RECURSIVE sum_td(_, _, _)
sum_td(t, n, b) ==
    IF n <= 0 THEN 0
    ELSE (IF b = 0 THEN t[n - 1].ns ELSE td_nr(t[n - 1], b)) + sum_td(t, n - 1, b)

\* Only the status of the first shard is looked at.
shard_failed_first_only(t, n) == t[0].ret < 0

\* The loop of line 871 over the n thread_data structures.
shard_failed(t, n) == \E i \in 0..(n - 1) : t[i].ret < 0

\* Lines 871-877: the status of every shard, then the totals.
CoCheck ==
    /\ co.pc = "check"
    /\ IF shard_failed(td, gs.nthread)
       THEN co' = [co EXCEPT !.pc = "fail"]
       ELSE co' = [co EXCEPT !.pc = "merge", !.b = F_MTX_AD,
                             !.ns = sum_td(td, gs.nthread, 0),
                             !.nr_ad = sum_td(td, gs.nthread, F_MTX_AD),
                             !.nr_dp = sum_td(td, gs.nthread, F_MTX_DP),
                             !.nr_oth = sum_td(td, gs.nthread, F_MTX_OTH)]
    /\ UNCHANGED <<gs, pl, fs, open, td, sd>>

\* The merge is taken as good whatever it returned.
merge_failed_never(r, ns, nr) == FALSE

\* Only the status of merge_mtx is looked at.
merge_failed_ret_only(r, ns, nr) == r.ret < 0

\* The test of lines 881, 887 and 893.
merge_failed(r, ns, nr) == r.ret < 0 \/ r.ns # ns \/ r.nr # nr

\* Lines 878-894: the summary line, then the merge of the tmp files of one matrix.
CoMergeMtx ==
    /\ co.pc = "merge"
    /\ co.b \in MtxKinds
    /\ LET f   == final_fs(co.b)
           nr  == td_nr(co, co.b)
           f1  == fs_append(fs_open_w(fs, f), f.fn, << <<co.ns, nsample(gs), nr>> >>)
           r   == merge_mtx(f1, tmp_files(co.b, gs.nthread), gs.nthread)
           bad == merge_failed(r, co.ns, nr)
       IN  /\ fs' = fs_append(f1, f.fn, r.out)
           /\ open' = IF bad THEN open \cup {[fn |-> f.fn, by |-> Coord]} ELSE open
           /\ co' = [co EXCEPT !.ns_merge = r.ns, !.nr_merge = r.nr,
                               !.pc = IF bad THEN "fail" ELSE "merge",
                               !.b = IF bad THEN @ ELSE @ + 1]
    /\ UNCHANGED <<gs, pl, td, sd>>

\* Lines 896-906: the tmp VCF files are appended as they are.
CoMergeVcf ==
    /\ co.pc = "merge"
    /\ co.b \notin MtxKinds
    /\ LET f == final_fs(co.b)
           r == merge_vcf(fs_open_w(fs, f), tmp_files(co.b, gs.nthread), gs.nthread)
       IN  /\ fs' = fs_append(fs_open_w(fs, f), f.fn, r.out)
           /\ open' = IF r.ret < 0 THEN open \cup {[fn |-> f.fn, by |-> Coord]} ELSE open
           /\ co' = [co EXCEPT !.pc = IF r.ret < 0 THEN "fail"
                                      ELSE IF co.b = F_VCF_BASE /\ gs.is_genotype THEN "merge"
                                      ELSE "clean",
                               !.b = IF r.ret < 0 THEN @ ELSE @ + 1]
    /\ UNCHANGED <<gs, pl, td, sd>>

\* thdata_destroy of the ntd structures that were created.
destroy_td(t, ntd) == [i \in Shards |-> IF i < ntd THEN [t[i] EXCEPT !.st = "destroyed"] ELSE t[i]]

\* Only the tmp file of the first shard is removed.
destroy_tmp_files_first_only(files, b, n) == fs_remove(files, {tmp_files(b, n)[1].fn})

\* destroy_tmp_files on out_tmp_<kind b>: its n tmp files are removed.
destroy_tmp_files(files, b, n) == fs_remove(files, {tmp_files(b, n)[i].fn : i \in 1..n})

\* The calls of destroy_tmp_files of lines 910-926 (and 933-947) from kind b
\* on; the removal fails for the kinds in kept, whose files stay.
RECURSIVE destroy_all(_, _, _, _)
destroy_all(files, g, kept, b) ==
    IF b > Cardinality(Kinds(g)) THEN files
    ELSE destroy_all(IF b \in kept THEN files ELSE destroy_tmp_files(files, b, g.nthread),
                     g, kept, b + 1)

\* Lines 907-927: success.
CoClean ==
    /\ co.pc = "clean"
    /\ td' = destroy_td(td, co.ntd)
    /\ fs' = destroy_all(fs, gs, {}, 1)
    /\ co' = [co EXCEPT !.pc = "done", !.ret = 0]
    /\ UNCHANGED <<gs, pl, open, sd>>

\* Lines 928-953: failure.
CoFail ==
    /\ co.pc = "fail"
    /\ td' = destroy_td(td, co.ntd)
    /\ fs' = destroy_all(fs, gs, {}, 1)
    /\ open' = {h \in open : h.by # Coord}
    /\ co' = [co EXCEPT !.pc = "done", !.ret = -1]
    /\ UNCHANGED <<gs, pl, sd>>

\* Lines 910-926 when destroy_tmp_files returns a negative number for the
\* tmp files of one kind: a warning is printed and the run returns 0.
CoCleanWarn ==
    /\ co.pc = "clean"
    /\ td' = destroy_td(td, co.ntd)
    /\ \E b \in Kinds(gs) : fs' = destroy_all(fs, gs, {b}, 1)
    /\ co' = [co EXCEPT !.pc = "done", !.ret = 0, !.warn = TRUE]
    /\ UNCHANGED <<gs, pl, open, sd>>

\* Lines 933-947 in the same case: a warning, and the run returns -1.
CoFailWarn ==
    /\ co.pc = "fail"
    /\ td' = destroy_td(td, co.ntd)
    /\ \E b \in Kinds(gs) : fs' = destroy_all(fs, gs, {b}, 1)
    /\ open' = {h \in open : h.by # Coord}
    /\ co' = [co EXCEPT !.pc = "done", !.ret = -1, !.warn = TRUE]
    /\ UNCHANGED <<gs, pl, sd>>

\* Lines 993-994: the single worker has returned.
CoDirect ==
    /\ co.pc = "direct"
    /\ td[0].st = "done"
    /\ IF td[0].ret < 0
       THEN /\ co' = [co EXCEPT !.pc = "done", !.ret = -1]
            /\ td' = destroy_td(td, 1)
       ELSE /\ co' = [co EXCEPT !.pc = "rewrite", !.b = F_MTX_AD]
            /\ td' = td
    /\ UNCHANGED <<gs, pl, fs, open, sd>>

\* Lines 995-1008: the summary line is filled in, one matrix after the other.
CoRewrite ==
    /\ co.pc = "rewrite"
    /\ LET r == rewrite_mtx(fs, final_fs(co.b), td[0].ns, nsample(gs), td_nr(td[0], co.b))
       IN  /\ fs' = r.files
           /\ IF r.ret # 0
              THEN /\ co' = [co EXCEPT !.pc = "done", !.ret = -1]
                   /\ td' = destroy_td(td, 1)
              ELSE IF co.b = F_MTX_OTH
              THEN /\ co' = [co EXCEPT !.pc = "done", !.ret = 0]
                   /\ td' = destroy_td(td, 1)
              ELSE /\ co' = [co EXCEPT !.b = @ + 1]
                   /\ td' = td
    /\ UNCHANGED <<gs, pl, open, sd>>

Coordinator ==
    \/ CoStart \/ CoSubmit \/ CoWait \/ CoCheck \/ CoMergeMtx \/ CoMergeVcf
    \/ CoClean \/ CoFail \/ CoDirect \/ CoRewrite

\* -------------------------------------------------- the run of one worker
\* run_mode_with_fetch with nthread = 1 as a function of its input (lines
\* 954-1011): the worker on the final files, then the three rewrites.
RECURSIVE direct_loop(_, _, _, _)
direct_next(r, snps, g) == direct_loop(r.td, r.fs, snps, g)

direct_loop(d, files, snps, g) ==
    IF d.st = "running" /\ d.pos < d.m
    THEN direct_next(worker_snp(d, files, snps, g), snps, g)
    ELSE [td |-> d, fs |-> files]

RECURSIVE direct_rewrite(_, _, _, _)
direct_rewritten(r, d, g, b) ==
    IF r.ret # 0 THEN [ret |-> -1, fs |-> r.files]
    ELSE IF b = F_MTX_OTH THEN [ret |-> 0, fs |-> r.files]
    ELSE direct_rewrite(r.files, d, g, b + 1)

direct_rewrite(files, d, g, b) ==
    direct_rewritten(rewrite_mtx(files, final_fs(b), d.ns, nsample(g), td_nr(d, b)), d, g, b)

direct_end(w, g) ==
    IF w.td.st # "running" THEN [ret |-> -1, fs |-> w.fs]
    ELSE direct_rewrite(w.fs, w.td, g, F_MTX_AD)

run_direct(snps, g) ==
    direct_end(direct_loop(worker_begin(new_td(0, Len(snps), [b \in Kinds(g) |-> final_fs(b)]), g),
                           fs_open_all(main_files(g), [b \in Kinds(g) |-> final_fs(b)], 1),
                           snps, g), g)

\* ------------------------------------------------------------------ inputs
\* A read that covers the SNP at pos with its second base and passes the
\* default read filters; only the three bases around the target are kept.
mk_read(cb, umi, base, pos) ==
    [umi |-> umi, cb |-> cb, mapq |-> 30, flag |-> 0, pos |-> pos - 1,
     cigar |-> << <<"M", 40>> >>, seq |-> <<15, base, 15>>, qual |-> <<30, 30, 30>>]

\* The reads of the observations of sample `only` (of every sample when 0).
RECURSIVE obs_reads(_, _, _, _)
obs_reads(obs, k, only, pos) ==
    IF k > Len(obs) THEN <<>>
    ELSE (IF only = 0 \/ obs[k][1] = only
          THEN << mk_read(obs[k][1], obs[k][2], obs[k][3], pos) >> ELSE <<>>)
         \o obs_reads(obs, k + 1, only, pos)

\* The k-th SNP of the list with the observations of a site: with barcodes
\* one source holds every read; with sample IDs source i holds the reads of
\* sample i.
mk_snp(site, k, g) ==
    [chr |-> "1", pos |-> 10 * k, ref |-> site.ref, alt |-> site.alt,
     src |-> [i \in 1..g.nin |->
                [tid_ok |-> TRUE, iter_ret |-> site.iter_ret,
                 reads |-> obs_reads(site.obs, 1, IF use_barcodes(g) THEN 0 ELSE i, 10 * k)]]]

\* Observations <<sample, UMI, nt16 base>> of the sites the runs are made of.
SiteBoth ==
    [ref |-> "A", alt |-> "C", iter_ret |-> -1,
     obs |-> << <<1, 1, 1>>, <<1, 2, 2>>, <<2, 1, 2>>, <<1, 1, 2>>, <<3, 1, 8>> >>]

SiteRefOnly ==
    [ref |-> "", alt |-> "", iter_ret |-> -1, obs |-> << <<1, 1, 1>>, <<1, 2, 1>> >>]

SiteTooFew ==
    [ref |-> "", alt |-> "", iter_ret |-> -1, obs |-> << <<2, 1, 4>> >>]

SiteOther ==
    [ref |-> "", alt |-> "", iter_ret |-> -1,
     obs |-> << <<1, 1, 4>>, <<2, 1, 1>>, <<2, 2, 2>> >>]

SiteIoError ==
    [ref |-> "", alt |-> "", iter_ret |-> -2, obs |-> << <<1, 1, 1>>, <<2, 1, 2>> >>]

Sites == {SiteBoth, SiteRefOnly, SiteTooFew, SiteOther, SiteIoError}

\* gll_set_default with the options of the run.
settings(nthread, genotype, barcodes, umi) ==
    [nthread |-> nthread, is_genotype |-> genotype,
     cell_tag |-> barcodes, sample_ids |-> ~barcodes, umi_tag |-> umi,
     nbarcode |-> IF barcodes THEN NumSamples ELSE 0,
     nsid |-> IF barcodes THEN 0 ELSE NumSamples,
     nin |-> IF barcodes THEN 1 ELSE NumSamples,
     min_count |-> 2, min_maf |-> 0,
     min_len |-> CSP_MIN_LEN, min_mapq |-> CSP_MIN_MAPQ, max_flag |-> CSP_MAX_FLAG]

SiteLists == UNION {[1..n -> Sites] : n \in 1..MaxSnps}

\* ----------------------------------------------------------- specification
Init ==
    /\ gs \in {settings(w, ge, bc, um) : w \in 1..MaxThreads, ge \in BOOLEAN,
                                         bc \in BOOLEAN, um \in BOOLEAN}
    /\ pl \in {[k \in DOMAIN l |-> mk_snp(l[k], k, gs)] : l \in SiteLists}
    /\ fs = main_files(gs)
    /\ open = {}
    /\ td = [i \in Shards |-> NoTd]
    /\ co = CoInit
    /\ sd = NoSd

Next == Coordinator \/ \E i \in Shards : Worker(i)

Spec == Init /\ [][Next]_vars

\* ----------------------------------- a run in which writes may be lost
\* Multi-worker runs on the sites that have no read error.
FaultSiteLists == UNION {[1..n -> {SiteBoth, SiteTooFew, SiteOther}] : n \in 1..MaxSnps}

InitFault ==
    /\ gs \in {settings(w, FALSE, bc, FALSE) : w \in 2..MaxThreads, bc \in BOOLEAN}
    /\ pl \in {[k \in DOMAIN l |-> mk_snp(l[k], k, gs)] : l \in FaultSiteLists}
    /\ fs = main_files(gs)
    /\ open = {}
    /\ td = [i \in Shards |-> NoTd]
    /\ co = CoInit
    /\ sd = NoSd

NextFault ==
    \/ CoStart \/ CoSubmit \/ CoWait \/ CoCheck \/ CoMergeMtx \/ CoMergeVcf \/ CoClean \/ CoFail
    \/ CoCleanWarn \/ CoFailWarn
    \/ \E i \in Shards : Worker(i) \/ WorkerSnpLost(i)

SpecFault == InitFault /\ [][NextFault]_vars

\* ------------------------------------------- one worker, read by read
NoRead == [umi |-> 0, cb |-> 0, mapq |-> 0, flag |-> 0, pos |-> 0,
           cigar |-> <<>>, seq |-> <<>>, qual |-> <<>>]

\* The reads sam_itr_next may deliver for the SNP at pos: every roster
\* sample, UMI and one of the bases A, C, N; a barcode outside the roster; a
\* low mapping quality; a missing cell tag, a missing UMI tag; a missing quality.
SnpReads(pos) ==
    {mk_read(cb, umi, base, pos) : cb \in 1..NumSamples, umi \in 1..MaxUmi, base \in {1, 2, 15}}
    \cup {mk_read(NumSamples + 1, 1, 1, pos), mk_read(0, 1, 1, pos), mk_read(1, 0, 1, pos),
          [mk_read(1, 1, 2, pos) EXCEPT !.mapq = 10],
          [mk_read(1, 1, 1, pos) EXCEPT !.qual = <<30, 255, 30>>]}

\* A SNP of the list whose reads the actions deliver.
snp_header(k, ref, alt) ==
    [chr |-> "1", pos |-> 10 * k, ref |-> ref, alt |-> alt,
     src |-> [i \in 1..NumSamples |-> [tid_ok |-> TRUE, iter_ret |-> -1, reads |-> <<>>]]]

\* pileup_snp_with_fetch entered for the n-th SNP with the mplp m.
snp_enter(n, m) ==
    [pc |-> "reads", n |-> n, i |-> 0, k |-> 0, acc |-> snp_begin(pl[n], m),
     b |-> NoRead, ran |-> FALSE, res |-> 0, miss |-> FALSE]

\* Values of --minMAF (a percentage) the worker is followed under.
SnpMinMafs == {0, 30}

InitSnp ==
    /\ gs \in {[settings(1, ge, bc, um) EXCEPT !.min_maf = f] :
                  ge \in BOOLEAN, bc \in BOOLEAN, um \in BOOLEAN, f \in SnpMinMafs}
    /\ pl \in {[k \in 1..MaxSnps |-> snp_header(k, ra[1], ra[2])] :
                  ra \in {<<"", "">>, <<"A", "C">>, <<"A", "">>}}
    /\ fs = main_files(gs)
    /\ open = {}
    /\ td = [i \in Shards |-> NoTd]
    /\ co = CoInit
    /\ sd = snp_enter(1, csp_mplp_prepare(gs))

\* Lines 445-456: sam_itr_next delivers a read of source sd.i.
SnpRead ==
    /\ sd.pc = "reads" /\ sd.i < gs.nin /\ sd.acc.state = 0 /\ sd.k < MaxReads
    /\ \E b \in SnpReads(pl[sd.n].pos) :
          sd' = [sd EXCEPT !.acc = read_step(sd.acc, b, sd.i, pl[sd.n].pos, gs),
                           !.k = @ + 1, !.b = b]
    /\ UNCHANGED <<gs, pl, fs, open, td, co>>

\* Lines 457-458: sam_itr_next ends the source, with -1 or with an error.
SnpSourceEnd ==
    /\ sd.pc = "reads" /\ sd.i < gs.nin /\ sd.acc.state = 0
    /\ \E r \in {-1, -2} :
          sd' = [sd EXCEPT !.acc = source_end(sd.acc, [iter_ret |-> r]), !.i = @ + 1, !.b = NoRead]
    /\ UNCHANGED <<gs, pl, fs, open, td, co>>

\* Line 443: the header of source sd.i does not name the chromosome of the
\* SNP (tid < 0), found before any read of the source is asked for.
SnpNoChrom ==
    /\ sd.pc = "reads" /\ sd.i < gs.nin /\ sd.acc.state = 0 /\ sd.b = NoRead
    /\ sd' = [sd EXCEPT !.acc = source_step(sd.acc, [tid_ok |-> FALSE, iter_ret |-> -1,
                                                     reads |-> <<>>],
                                            sd.i, pl[sd.n].pos, gs),
                        !.miss = TRUE]
    /\ UNCHANGED <<gs, pl, fs, open, td, co>>

snp_finished(r, ran) == [sd EXCEPT !.pc = "stat", !.acc.mplp = r.mplp, !.res = r.state, !.ran = ran]

\* Lines 464-475: the count filter and csp_mplp_stat; ran tells whether
\* csp_mplp_stat was called.
SnpStat ==
    /\ sd.pc = "reads" /\ (sd.i >= gs.nin \/ sd.acc.state # 0)
    /\ sd' = snp_finished(snp_finish(sd.acc, gs),
                          sd.acc.state = 0 /\ ~LtUnsignedInt(sd.acc.npushed, gs.min_count))
    /\ UNCHANGED <<gs, pl, fs, open, td, co>>

\* Lines 566-590: a failed SNP ends the worker; otherwise the mplp is reset
\* and the next SNP of the shard is entered.
SnpNext ==
    /\ sd.pc = "stat"
    /\ IF sd.res < 0 \/ sd.n >= Len(pl)
       THEN sd' = [sd EXCEPT !.pc = "end"]
       ELSE sd' = snp_enter(sd.n + 1, csp_mplp_reset(sd.acc.mplp))
    /\ UNCHANGED <<gs, pl, fs, open, td, co>>

NextSnp == SnpRead \/ SnpSourceEnd \/ SnpNoChrom \/ SnpStat \/ SnpNext

SpecSnp == InitSnp /\ [][NextSnp]_vars

\* --------------------------------- one input under two filter settings
\* Values --minCOUNT and --minMAF (a percentage) may be given: atoi and atof
\* take them unchecked (lines 1284-1285).
MinCounts == {-1, 0, 2, 3}

MinMafs == {0, 40}

InitFilter ==
    /\ gs \in {settings(1, FALSE, bc, um) : bc \in BOOLEAN, um \in BOOLEAN}
    /\ pl \in {[k \in DOMAIN l |-> mk_snp(l[k], k, gs)] : l \in SiteLists}
    /\ fs = main_files(gs)
    /\ open = {}
    /\ td = [i \in Shards |-> NoTd]
    /\ co = CoInit
    /\ sd = [pc |-> "configure"]

\* The SNPs of the list that pileup_snp_with_fetch lets pass under g.
passing_under(g) ==
    {k \in DOMAIN pl : pileup_snp_with_fetch(pl[k], csp_mplp_prepare(g), g).state = 0}

\* Two command lines on the same input; the second raises no threshold below
\* the first.
FilterConfigure ==
    /\ sd.pc = "configure"
    /\ \E c1, c2 \in MinCounts : \E f1, f2 \in MinMafs :
          /\ c1 <= c2 /\ f1 <= f2
          /\ sd' = [pc |-> "pileup",
                    lo |-> [gs EXCEPT !.min_count = c1, !.min_maf = f1],
                    hi |-> [gs EXCEPT !.min_count = c2, !.min_maf = f2]]
    /\ UNCHANGED <<gs, pl, fs, open, td, co>>

FilterPileup ==
    /\ sd.pc = "pileup"
    /\ sd' = [pc |-> "filtered", lo |-> sd.lo, hi |-> sd.hi,
              pass_lo |-> passing_under(sd.lo), pass_hi |-> passing_under(sd.hi)]
    /\ UNCHANGED <<gs, pl, fs, open, td, co>>

NextFilter == FilterConfigure \/ FilterPileup

SpecFilter == InitFilter /\ [][NextFilter]_vars

\* ------------------------------------------- the check of the options
\* Pointers to strings are strings, "" for NULL; pointers to arrays are
\* BOOLEAN, FALSE for NULL.  A list file is named by what reading it gives:
\* "one" and "two" hold that many lines, "bad" cannot be read.
hts_readlines(fn) == CASE fn = "one" -> 1 [] fn = "two" -> 2 [] OTHER -> -1

IsNone(tag) == tag \in {"None", "none"}

\* Lines 1157-1163.
args_umi(g) ==
    [ret |-> 0, ub |-> FALSE,
     gs |-> [g EXCEPT !.umi_tag = IF @ = "Auto" THEN (IF g.barcodes THEN "UR" ELSE "")
                                  ELSE IF IsNone(@) THEN "" ELSE @]]

\* Lines 1153-1156.
args_regions(g) ==
    IF g.pos_list_file = "" \/ IsNone(g.pos_list_file)
    THEN IF ~g.chrom_all THEN [ret |-> -1, ub |-> FALSE, gs |-> g]
         ELSE args_umi([g EXCEPT !.pos_list_file = ""])
    ELSE args_umi([g EXCEPT !.chrom_all = FALSE, !.nchrom = 0])

\* Lines 1145-1148.
args_nsid(g) == IF g.nin # g.nsid THEN [ret |-> -2, ub |-> FALSE, gs |-> g] ELSE args_regions(g)

\* No sample ID is needed: lines 1132-1148 are left out.
args_sample_ids_unchecked(g) == args_regions(g)

\* Lines 1132-1148.  Without sample IDs and without a list of them, line 1135
\* stores the default names through the NULL pointer gs->sample_ids (nin > 0):
\* ub marks this outcome; were the stores to pass, nsid is still 0 # nin.
args_sample_ids(g) ==
    IF ~g.sample_ids
    THEN IF g.sid_list_file = ""
         THEN [ret |-> -2, ub |-> TRUE, gs |-> g]
         ELSE IF hts_readlines(g.sid_list_file) < 0 THEN [ret |-> -2, ub |-> FALSE, gs |-> g]
         ELSE args_nsid([g EXCEPT !.sample_ids = TRUE, !.nsid = hts_readlines(g.sid_list_file)])
    ELSE IF g.sid_list_file # "" THEN [ret |-> -1, ub |-> FALSE, gs |-> g]
    ELSE args_nsid(g)

\* Lines 1120-1131.
args_grouping(g) ==
    IF g.cell_tag # "" /\ g.barcode_file # ""
    THEN IF g.sample_ids \/ g.sid_list_file # "" THEN [ret |-> -1, ub |-> FALSE, gs |-> g]
         ELSE IF hts_readlines(g.barcode_file) < 0 THEN [ret |-> -2, ub |-> FALSE, gs |-> g]
         ELSE args_regions([g EXCEPT !.barcodes = TRUE, !.nbarcode = hts_readlines(g.barcode_file)])
    ELSE IF (g.cell_tag = "") # (g.barcode_file = "") THEN [ret |-> -1, ub |-> FALSE, gs |-> g]
    ELSE args_sample_ids(g)

\* Lines 1116-1119.
args_sid_given(g) ==
    IF g.sample_ids \/ g.sid_list_file # ""
    THEN IF g.barcode_file # "" THEN [ret |-> -1, ub |-> FALSE, gs |-> g]
         ELSE args_grouping([g EXCEPT !.cell_tag = ""])
    ELSE args_grouping(g)

\* Lines 1113-1115.
args_cell_tag(g) == args_sid_given([g EXCEPT !.cell_tag = IF IsNone(@) THEN "" ELSE @])

\* Lines 1099-1107: env tells whether the input files exist and whether the
\* output directory exists or can be made.
args_out_dir(g, env) ==
    IF ~env.in_exist THEN [ret |-> -2, ub |-> FALSE, gs |-> g]
    ELSE IF g.out_dir = "" THEN [ret |-> -1, ub |-> FALSE, gs |-> g]
    ELSE IF ~env.out_dir_ok THEN [ret |-> -2, ub |-> FALSE, gs |-> g]
    ELSE args_cell_tag(g)

\* 0, or -1 (print the usage), or -2, with the settings as they are left.
check_global_args(g, env) ==
    IF g.in_fn_file # ""
    THEN IF g.in_fns THEN [ret |-> -1, ub |-> FALSE, gs |-> g]
         ELSE IF hts_readlines(g.in_fn_file) <= 0
         THEN [ret |-> -2, ub |-> FALSE, gs |-> [g EXCEPT !.nin = 0]]
         ELSE args_out_dir([g EXCEPT !.in_fns = TRUE, !.nin = hts_readlines(g.in_fn_file)], env)
    ELSE IF ~g.in_fns THEN [ret |-> -1, ub |-> FALSE, gs |-> g]
    ELSE args_out_dir(g, env)

\* gll_set_default overwritten by the options of a command line.
parsed_args(in_fn_file, nin, out_dir, cell_tag, barcode_file, nsid, sid_list_file, pos_list_file, umi_tag) ==
    [in_fn_file |-> in_fn_file, in_fns |-> nin > 0, nin |-> nin, out_dir |-> out_dir,
     cell_tag |-> cell_tag, barcode_file |-> barcode_file, barcodes |-> FALSE, nbarcode |-> 0,
     sample_ids |-> nsid > 0, nsid |-> nsid, sid_list_file |-> sid_list_file,
     pos_list_file |-> pos_list_file, chrom_all |-> TRUE, nchrom |-> 22, umi_tag |-> umi_tag]

\* The settings as the pileup reads them: a pointer is used for its truth.
run_settings(g) ==
    [g EXCEPT !.cell_tag = g.cell_tag # "", !.umi_tag = g.umi_tag # ""]

\* Lines 222-224 of csp_mplp_prepare: where the names of the groups are taken.
sgnames(g) ==
    IF use_barcodes(g) THEN "barcodes" ELSE IF use_sid(g) THEN "sample_ids" ELSE "none"

InitArgs ==
    /\ gs \in {parsed_args(f, n, o, c, b, i, l, r, u) :
                  f \in {"", "bad", "two"}, n \in 0..NumSamples, o \in {"", "dir"},
                  c \in {"CB", "None", "none"}, b \in {"", "bad", "two"},
                  i \in 0..NumSamples, l \in {"", "bad", "one", "two"},
                  r \in {"", "None", "vcf"}, u \in {"Auto", "None", "UR"}}
    /\ sd \in {[pc |-> "parsed", given |-> gs, env |-> [in_exist |-> e, out_dir_ok |-> d],
                 ret |-> 0, names |-> "", group |-> 0] :
                  e \in BOOLEAN, d \in BOOLEAN}
    /\ pl = <<>>
    /\ fs = <<>>
    /\ open = {}
    /\ td = [i \in Shards |-> NoTd]
    /\ co = CoInit

args_checked(r) ==
    \/ /\ gs' = r.gs
       /\ sd' = [sd EXCEPT !.pc = "checked", !.ret = r.ret]
    \/ /\ r.ub
       /\ gs' = r.gs
       /\ sd' = [sd EXCEPT !.pc = "crashed", !.ret = -11]

\* Line 1301.
ArgsCheck ==
    /\ sd.pc = "parsed"
    /\ args_checked(check_global_args(gs, sd.env))
    /\ UNCHANGED <<pl, fs, open, td, co>>

\* A worker prepares its mplp and pushes the first read (lines 533 and 450-452).
ArgsPrepare ==
    /\ sd.pc = "checked" /\ sd.ret = 0
    /\ sd' = [sd EXCEPT !.pc = "prepared",
                        !.names = sgnames(run_settings(gs)),
                        !.group = push_group(1, [hsg |-> <<EmptyPlp>>], 0, run_settings(gs))]
    /\ UNCHANGED <<gs, pl, fs, open, td, co>>

NextArgs == ArgsCheck \/ ArgsPrepare

SpecArgs == InitArgs /\ [][NextArgs]_vars

\* ------------------------- a run that may fail in each of its phases
\* Lines 817-841: create_tmp_files, calloc or the first thdata_init returns
\* NULL, so the run goes to fail before a shard is handed to the pool.
CoSubmitFail ==
    /\ co.pc = "submit"
    /\ co.ntd = 0
    /\ co' = [co EXCEPT !.pc = "fail"]
    /\ UNCHANGED <<gs, pl, fs, open, td, sd>>

\* Multi-worker runs on a site that is written and one whose reads fail.
PhaseSiteLists == UNION {[1..n -> {SiteBoth, SiteIoError}] : n \in 1..MaxSnps}

InitPhases ==
    /\ gs \in {settings(w, ge, bc, FALSE) : w \in 2..MaxThreads, ge \in BOOLEAN, bc \in BOOLEAN}
    /\ pl \in {[k \in DOMAIN l |-> mk_snp(l[k], k, gs)] : l \in PhaseSiteLists}
    /\ fs = main_files(gs)
    /\ open = {}
    /\ td = [i \in Shards |-> NoTd]
    /\ co = CoInit
    /\ sd = NoSd

NextPhases ==
    \/ CoStart \/ CoSubmit \/ CoSubmitFail \/ CoWait \/ CoCheck \/ CoMergeMtx \/ CoMergeVcf
    \/ CoClean \/ CoFail
    \/ \E i \in Shards : Worker(i) \/ WorkerSnpLost(i)

SpecPhases == InitPhases /\ [][NextPhases]_vars

\* --------------------------------------------- one read, one position
\* The CIGARs of the reads: up to MaxOps operations.
MaxOps == 3

CigarOps == {<<"M", 1>>, <<"M", 2>>, <<"X", 1>>, <<"I", 1>>, <<"D", 1>>, <<"N", 1>>, <<"S", 1>>}

ReadCigars == UNION {[1..n -> CigarOps] : n \in 0..MaxOps}

RECURSIVE query_len(_, _)
query_len(cigar, k) ==
    IF k = 0 THEN 0
    ELSE (IF IsMatchOp(cigar[k][1]) \/ IsQueryOnlyOp(cigar[k][1]) THEN cigar[k][2] ELSE 0)
         + query_len(cigar, k - 1)

\* A read that starts at 0: its l_qseq is what its CIGAR consumes, the base
\* at query offset q is the nt16 code 2^(q % 4) and its quality 30 + q.
cigar_read(cigar, umi, cb, mapq, flag) ==
    [umi |-> umi, cb |-> cb, mapq |-> mapq, flag |-> flag, pos |-> 0, cigar |-> cigar,
     seq |-> [j \in 1..query_len(cigar, Len(cigar)) |-> 2 ^ ((j - 1) % 4)],
     qual |-> [j \in 1..query_len(cigar, Len(cigar)) |-> 29 + j]]

\* Values of --minLEN the reads are resolved under.
ReadMinLens == {2, 4}

\* pileup_read_with_fetch is entered for the read sd.b and the position
\* sd.pos, which sam_itr_queryi gives only with c->pos <= pos.
InitRead ==
    /\ gs \in {[settings(1, FALSE, bc, um) EXCEPT !.min_len = ml] :
                  bc \in BOOLEAN, um \in BOOLEAN, ml \in ReadMinLens}
    /\ pl = <<>>
    /\ fs = main_files(gs)
    /\ open = {}
    /\ td = [i \in Shards |-> NoTd]
    /\ co = CoInit
    /\ sd \in {[pc |-> "read", pos |-> pos, b |-> cigar_read(c, t[1], t[2], t[3], t[4]),
                p |-> NoPileup(0), build |-> ""] :
                  pos \in 0..MaxOps, c \in ReadCigars,
                  t \in {<<1, 1, 30, 0>>, <<0, 1, 30, 0>>, <<1, 0, 30, 0>>, <<0, 0, 10, 256>>,
                         <<1, 1, 10, 0>>, <<1, 1, 30, 256>>, <<1, 1, 10, 256>>}}

\* Lines 393-412 in a build without the asserts (NDEBUG) when the first loop
\* ran off the list: op is the last operation, or was never assigned (op0)
\* when the list is empty; the base read at py + (pos - px) lies outside the
\* operations and a base that was not assigned is a stale one: any code.
pileup_ndebug(w, op0, any, pos, b, g) ==
    IF IsRefOnlyOp(IF Len(b.cigar) = 0 THEN op0 ELSE w.op) THEN NoPileup(2)
    ELSE IF LtUnsignedInt(w.laln, g.min_len) THEN NoPileup(2)
    ELSE [st |-> 0, base |-> any, qual |-> any, laln |-> w.laln, qpos |-> w.py + (pos - w.px)]

\* The call of pileup_read_with_fetch.  Where an assert fails (st = -9) the
\* process is aborted in a build with asserts and nothing is returned; in a
\* build without them the function goes on.
ReadPileup ==
    /\ sd.pc = "read"
    /\ LET p == pileup_read_with_fetch(sd.pos, sd.b, gs)
       IN  IF p.st # -9 THEN sd' = [sd EXCEPT !.pc = "returned", !.p = p]
           ELSE \/ sd' = [sd EXCEPT !.pc = "aborted", !.p = p, !.build = "assert"]
                \/ \E op0 \in {"M", "D", "I"} : \E any \in {1, 15} :
                      sd' = [sd EXCEPT !.pc = "returned", !.build = "ndebug",
                                       !.p = pileup_ndebug(cigar_find(sd.b.cigar, 1, sd.b.pos, 0, 0, sd.pos),
                                                           op0, any, sd.pos, sd.b, gs)]
    /\ UNCHANGED <<gs, pl, fs, open, td, co>>

NextRead == ReadPileup

SpecRead == InitRead /\ [][NextRead]_vars

\* ------------------------------------- the resources of one worker
\* One worker followed through what it acquires and releases.  sd.fo: the
\* kinds of its output files that are open; sd.built: the csp_bam_fs it has
\* built and not destroyed; sd.nfs, sd.bam, sd.pileup, sd.mplp: the locals of
\* pileup_positions_with_fetch; sd.iter: the local iter of
\* pileup_snp_with_fetch is not NULL; sd.live: region iterators created and
\* not destroyed; sd.state: the state pileup_snp_with_fetch returns.
InitRes ==
    /\ gs \in {settings(1, ge, bc, FALSE) : ge \in BOOLEAN, bc \in BOOLEAN}
    /\ pl \in {[k \in 1..n |-> snp_header(k, "", "")] : n \in 1..MaxSnps}
    /\ fs = main_files(gs)
    /\ open = {}
    /\ td = [i \in Shards |-> NoTd]
    /\ co = CoInit
    /\ sd = [pc |-> "open", fo |-> {}, mplp |-> FALSE, bam |-> FALSE, nfs |-> 0, built |-> {},
             pileup |-> FALSE, n |-> 0, i |-> 0, iter |-> FALSE, live |-> 0, state |-> -1,
             ret |-> -1, snps |-> 0]

\* The fail label of pileup_snp_with_fetch keeps the iterator.
snp_fail_keeps_iter(d, state) == [d EXCEPT !.pc = "snp", !.state = state]

\* Lines 472-475: the fail label of pileup_snp_with_fetch.
snp_fail(d, state) ==
    [d EXCEPT !.pc = "snp", !.state = state, !.live = IF d.iter THEN @ - 1 ELSE @]

\* Lines 509-530: csp_fs_open of the next output file succeeds or fails.
ResOpen ==
    /\ sd.pc = "open"
    /\ \E ok \in BOOLEAN :
          sd' = IF ~ok THEN [sd EXCEPT !.pc = "fail"]
                ELSE [sd EXCEPT !.fo = @ \cup {Cardinality(@) + 1},
                                !.pc = IF Cardinality(sd.fo) + 1 = Cardinality(Kinds(gs))
                                       THEN "prepare" ELSE "open"]
    /\ UNCHANGED <<gs, pl, fs, open, td, co>>

\* Lines 532-536: csp_mplp_init, csp_mplp_prepare and the calloc of bam_fs; at
\* step 1 the init fails, at 2 the prepare, at 3 the calloc, at 4 none.
ResPrepare ==
    /\ sd.pc = "prepare"
    /\ \E step \in 1..4 :
          sd' = [sd EXCEPT !.mplp = step > 1, !.bam = step > 3,
                           !.pc = IF step > 3 THEN "build" ELSE "fail"]
    /\ UNCHANGED <<gs, pl, fs, open, td, co>>

\* Lines 537-546: csp_bam_fs_build of input nfs, csp_pileup_init after the last.
ResBuild ==
    /\ sd.pc = "build"
    /\ \E ok \in BOOLEAN :
          sd' = IF ~ok THEN [sd EXCEPT !.pc = "fail"]
                ELSE IF sd.nfs < gs.nin
                THEN [sd EXCEPT !.built = @ \cup {sd.nfs}, !.nfs = @ + 1]
                ELSE [sd EXCEPT !.pileup = TRUE, !.pc = "loop"]
    /\ UNCHANGED <<gs, pl, fs, open, td, co>>

\* Lines 554-566 and 591-599: the next SNP is piled up, or the worker ends
\* and releases what it holds.
ResLoop ==
    /\ sd.pc = "loop"
    /\ sd' = IF sd.n < Len(pl)
             THEN [sd EXCEPT !.pc = "source", !.i = 0, !.iter = FALSE, !.state = -1]
             ELSE [sd EXCEPT !.pc = "returned", !.fo = {}, !.pileup = FALSE, !.built = {},
                             !.bam = FALSE, !.mplp = FALSE, !.ret = 0]
    /\ UNCHANGED <<gs, pl, fs, open, td, co>>

\* Lines 439-444 and 464-470: the region iterator of source sd.i is made
\* ("iter"), its chromosome is missing ("tid") or sam_itr_queryi returns NULL
\* ("null"); after the last source the count filter and csp_mplp_stat decide.
ResSource ==
    /\ sd.pc = "source"
    /\ IF sd.i < gs.nin
       THEN \E what \in {"iter", "tid", "null"} :
               sd' = IF what = "iter"
                     THEN [sd EXCEPT !.pc = "reads", !.iter = TRUE, !.live = @ + 1]
                     ELSE snp_fail(sd, 1)
       ELSE \E state \in {0, 1, -1} :
               sd' = IF state = 0 THEN [sd EXCEPT !.pc = "snp", !.state = 0]
                     ELSE snp_fail(sd, state)
    /\ UNCHANGED <<gs, pl, fs, open, td, co>>

\* Lines 445-458: a read is pushed or skipped ("read"), a read or a push
\* fails ("error"), the source ends ("end") or sam_itr_next fails ("io").
ResReads ==
    /\ sd.pc = "reads"
    /\ \E what \in {"read", "error", "end", "io"} :
          sd' = IF what = "read" THEN sd
                ELSE IF what = "end"
                THEN [sd EXCEPT !.pc = "source", !.i = @ + 1, !.iter = FALSE, !.live = @ - 1]
                ELSE snp_fail(sd, -1)
    /\ UNCHANGED <<gs, pl, fs, open, td, co>>

\* Lines 566-590: what the worker does with the state of the SNP.
ResSnp ==
    /\ sd.pc = "snp"
    /\ sd' = IF sd.state < 0 THEN [sd EXCEPT !.pc = "fail"]
             ELSE [sd EXCEPT !.pc = "loop", !.n = @ + 1, !.snps = @ + 1]
    /\ UNCHANGED <<gs, pl, fs, open, td, co>>

\* Lines 600-613: the fail label of pileup_positions_with_fetch.
ResFail ==
    /\ sd.pc = "fail"
    /\ sd' = [sd EXCEPT !.pc = "returned",
                        !.fo = {b \in @ : ~(b \in Kinds(gs))},
                        !.pileup = FALSE,
                        !.built = IF sd.bam THEN {j \in @ : ~(j < sd.nfs)} ELSE @,
                        !.bam = FALSE, !.mplp = FALSE]
    /\ UNCHANGED <<gs, pl, fs, open, td, co>>

NextRes == ResOpen \/ ResPrepare \/ ResBuild \/ ResLoop \/ ResSource \/ ResReads \/ ResSnp \/ ResFail

SpecRes == InitRes /\ [][NextRes]_vars

\* ------------------------------------------------- what a run should write
RunOk == co.pc = "done" /\ co.ret = 0

MultiOk == RunOk /\ gs.nthread > 1

\* The outcome of the k-th SNP of the list piled up on its own.
snp_result(k) == pileup_snp_with_fetch(pl[k], csp_mplp_prepare(gs), gs)

Passing == {k \in DOMAIN pl : snp_result(k).state = 0}

\* 1 + the number of passing SNPs before the k-th of the list.
Rank(k) == 1 + Cardinality({j \in Passing : j < k})

RECURSIVE group_records(_, _, _, _)
group_records(m, b, ord, g) ==
    IF g > nsample(gs) THEN <<>>
    ELSE (IF plp_field(m.hsg[g], b) # 0 THEN << <<ord, g, plp_field(m.hsg[g], b)>> >> ELSE <<>>)
         \o group_records(m, b, ord, g + 1)

\* The records of matrix b for the SNPs from the k-th on.
RECURSIVE site_records(_, _)
site_records(b, k) ==
    IF k > Len(pl) THEN <<>>
    ELSE (IF k \in Passing THEN group_records(snp_result(k).mplp, b, Rank(k), 1) ELSE <<>>)
         \o site_records(b, k + 1)

\* The records of the VCF of kind b for the SNPs from the k-th on.
RECURSIVE vcf_records(_, _)
vcf_records(b, k) ==
    IF k > Len(pl) THEN <<>>
    ELSE (IF k \in Passing
          THEN << IF b = F_VCF_BASE THEN vcf_base_line(pl[k], snp_result(k).mplp)
                  ELSE vcf_cells_line(pl[k], snp_result(k).mplp) >>
          ELSE <<>>)
         \o vcf_records(b, k + 1)

MtxRecords(b) == SubSeq(fs[<<b>>], Len(MtxHeader) + 2, Len(fs[<<b>>]))

VcfRecords(b) == SubSeq(fs[<<b>>], Len(VcfBaseHeader) + 1, Len(fs[<<b>>]))

IsRecord(ln) == Len(ln) = 3 /\ ln[1] >= 1 /\ ln[2] \in 1..nsample(gs) /\ ln[3] # 0

\* --------------------------------------------------------------- claims
\* C1: a run with W > 1 workers ends like the run of one worker on the same
\* input: the same return value and, when the run succeeds, the same final
\* AD/DP/OTH matrices and base/cells VCFs, line for line (summary line,
\* records, order, site ordinals); a failed run has no final output to compare.
C1_SameAsOneWorker ==
    co.pc = "done" =>
        /\ co.ret = run_direct(pl, gs).ret
        /\ co.ret = 0 => fs = run_direct(pl, gs).fs

\* A successful run of several workers in which two shards contributed sites.
C1_Witness ==
    /\ MultiOk
    /\ Cardinality({i \in Shards : td[i].ns > 0}) >= 2
    /\ Len(MtxRecords(F_MTX_DP)) >= 2

\* C6: after a successful run, with one worker or several, every final matrix
\* is the comment header, then one summary line (passing SNPs, roster samples,
\* record lines), then only record lines; and the step that writes the summary
\* line (rewrite_mtx, or the coordinator before merging) keeps every line that
\* was in the file, in order, with the summary right after the comment lines.
C6_StructureAt ==
    RunOk => \A b \in MtxKinds :
        /\ Len(fs[<<b>>]) >= Len(MtxHeader) + 1
        /\ SubSeq(fs[<<b>>], 1, Len(MtxHeader)) = MtxHeader
        /\ fs[<<b>>][Len(MtxHeader) + 1]
             = <<Cardinality(Passing), nsample(gs), Len(fs[<<b>>]) - Len(MtxHeader) - 1>>
        /\ \A j \in 1..Len(MtxRecords(b)) : IsRecord(MtxRecords(b)[j])

C6_SummaryStep ==
    (co.b \in MtxKinds /\ (co.pc = "merge" \/ (co.pc = "rewrite" /\ (co'.pc # "done" \/ co'.ret = 0)))) =>
        /\ fs'[<<co.b>>][Len(MtxHeader) + 1][2] = nsample(gs)
        /\ SubSeq(fs'[<<co.b>>], 1, Len(MtxHeader)) = SubSeq(fs[<<co.b>>], 1, Len(MtxHeader))
        /\ co.pc = "rewrite" =>
              SubSeq(fs'[<<co.b>>], Len(MtxHeader) + 2, Len(fs'[<<co.b>>]))
                = SubSeq(fs[<<co.b>>], Len(MtxHeader) + 1, Len(fs[<<co.b>>]))

C6_MatrixStructure == []C6_StructureAt /\ [][C6_SummaryStep]_vars

\* A one-worker run whose rewritten AD matrix holds at least two records.
C6_Witness == RunOk /\ gs.nthread = 1 /\ Len(MtxRecords(F_MTX_AD)) >= 2

\* C7: in the final matrices the records are those of the passing SNPs in
\* list order, each with the ordinal 1 + the number of passing SNPs before its
\* SNP in the whole list, whatever the shards were: so ordinals never decrease,
\* lie in 1..totalSites, and a passing SNP without a record keeps its ordinal.
C7_SiteOrdinals ==
    RunOk => \A b \in MtxKinds :
        /\ MtxRecords(b) = site_records(b, 1)
        /\ \A j \in 1..Len(MtxRecords(b)) :
              /\ MtxRecords(b)[j][1] \in 1..Cardinality(Passing)
              /\ j > 1 => MtxRecords(b)[j - 1][1] <= MtxRecords(b)[j][1]

\* Several workers; a passing SNP without an AD record lies before a SNP of a
\* later shard that has one, so the ordinal of that record counts both.
C7_Witness ==
    /\ MultiOk
    /\ \E j \in 1..Len(MtxRecords(F_MTX_AD)) :
          /\ MtxRecords(F_MTX_AD)[j][1] >= 2
          /\ \E o \in 1..(MtxRecords(F_MTX_AD)[j][1] - 1) :
                \A i \in 1..Len(MtxRecords(F_MTX_AD)) : MtxRecords(F_MTX_AD)[i][1] # o
    /\ td[0].ns > 0 /\ td[1].ns > 0

\* C8: after a successful run the base VCF, and the cells VCF when genotyping,
\* hold after their header exactly one record per passing SNP, in the order of
\* the SNP list, in every interleaving of the workers.
C8_VcfOrder ==
    RunOk => \A b \in Kinds(gs) \ MtxKinds :
        /\ SubSeq(fs[<<b>>], 1, Len(VcfBaseHeader)) = main_files(gs)[<<b>>]
        /\ VcfRecords(b) = vcf_records(b, 1)

\* Three workers, each of which wrote a record, and the cells VCF as well.
C8_Witness ==
    /\ MultiOk /\ gs.nthread = 3 /\ gs.is_genotype
    /\ \A i \in 0..2 : td[i].ns > 0
    /\ Len(VcfRecords(F_VCF_CELLS)) = 3

\* C9: no two workers share a mutable object.  The settings and the SNP list
\* never change; a step that leaves the thread_data of a running worker as it
\* was (a step of somebody else) leaves that worker's output files as they
\* were; a step changes the thread_data of one shard at most unless it is the
\* coordinator's; the output files of two live shards have different names;
\* and no file is open under two owners.
C9_Step ==
    /\ gs' = gs /\ pl' = pl
    /\ \A i \in Shards :
          (td[i].st = "running" /\ td'[i] = td[i]) =>
              \A b \in DOMAIN td[i].out : fs'[td[i].out[b].fn] = fs[td[i].out[b].fn]
    /\ co' = co => Cardinality({i \in Shards : td'[i] # td[i]}) <= 1

C9_Names ==
    /\ \A i, j \in Shards :
          (i # j /\ td[i].st \in {"queued", "running"} /\ td[j].st \in {"queued", "running"}) =>
              \A b \in DOMAIN td[i].out : \A c \in DOMAIN td[j].out :
                  td[i].out[b].fn # td[j].out[c].fn
    /\ \A h1, h2 \in open : h1.fn = h2.fn => h1.by = h2.by

C9_NoSharedWrites == []C9_Names /\ [][C9_Step]_vars

\* Two workers are running at once and each has written a site.
C9_Witness ==
    \E i, j \in Shards :
        /\ i # j
        /\ td[i].st = "running" /\ td[i].ns > 0
        /\ td[j].st = "running" /\ td[j].ns > 0

\* C10: with several workers, when the coordinator reads the shards' counters
\* (check) or merges the fragments (merge, then clean), every shard has ended
\* and no worker holds a file open.
C10_Barrier ==
    (gs.nthread > 1 /\ co.pc \in {"check", "merge", "clean"}) =>
        /\ \A i \in 0..(gs.nthread - 1) : td[i].st = "done"
        /\ \A h \in open : h.by = Coord

\* The coordinator is merging fragments that hold records of two shards.
C10_Witness ==
    /\ gs.nthread > 1 /\ co.pc = "merge" /\ co.b = F_MTX_DP
    /\ td[0].nr_dp > 0 /\ td[1].nr_dp > 0

\* The number of empty lines in the fragments of matrix b.
RECURSIVE boundaries(_, _)
boundaries(b, n) ==
    IF n <= 0 THEN 0
    ELSE Len(SelectSeq(fs[tmp_files(b, n)[n].fn], IsBoundary)) + boundaries(b, n - 1)

\* C2: a run of several workers returns 0 only through three checked merges.
\* Merging a matrix first writes the summary line with the sums of the
\* shards' ns and nr counters; merge_mtx then counts the site boundaries and
\* the record lines of the fragments, and the run goes on only if both counts
\* equal those sums, and fails with -1 otherwise.  Before the run returns 0
\* every final matrix holds that summary line and as many records as it says.
C2_AtClean ==
    (gs.nthread > 1 /\ co.pc = "clean") =>
        \A b \in MtxKinds :
            /\ fs[<<b>>][Len(MtxHeader) + 1]
                 = <<sum_td(td, gs.nthread, 0), nsample(gs), sum_td(td, gs.nthread, b)>>
            /\ Len(MtxRecords(b)) = sum_td(td, gs.nthread, b)
            /\ boundaries(b, gs.nthread) = sum_td(td, gs.nthread, 0)

C2_Step ==
    /\ (gs.nthread > 1 /\ co.pc = "merge" /\ co.b \in MtxKinds) =>
          /\ fs'[<<co.b>>][Len(fs[<<co.b>>]) + 1]
               = <<sum_td(td, gs.nthread, 0), nsample(gs), sum_td(td, gs.nthread, co.b)>>
          /\ co'.ns_merge = boundaries(co.b, gs.nthread)
          /\ co'.nr_merge = Len(fs'[<<co.b>>]) - Len(fs[<<co.b>>]) - 1
          /\ co'.pc = "merge" <=> (/\ co'.ns_merge = sum_td(td, gs.nthread, 0)
                                   /\ co'.nr_merge = sum_td(td, gs.nthread, co.b))
          /\ co'.pc # "merge" => co'.pc = "fail"
    /\ (gs.nthread > 1 /\ co.pc = "fail") => co'.ret = -1
    /\ (gs.nthread > 1 /\ co.pc # "done" /\ co'.pc = "done" /\ co'.ret = 0) => co.pc = "clean"
    /\ (gs.nthread > 1 /\ co.pc # "clean" /\ co'.pc = "clean") =>
          co.pc = "merge" /\ co.b > F_MTX_OTH

C2_MergeCounts == []C2_AtClean /\ [][C2_Step]_vars

\* Three matrices of a run of several workers were merged and checked, with
\* sites of two shards and at least two AD records.
C2_Witness ==
    /\ gs.nthread > 1 /\ co.pc = "clean"
    /\ td[0].ns > 0 /\ td[1].ns > 0
    /\ sum_td(td, gs.nthread, F_MTX_AD) >= 2

\* A lost write made the merged counts differ from the sums and the run failed.
C2_MismatchSeen ==
    /\ gs.nthread > 1 /\ co.pc = "done" /\ co.ret = -1
    /\ co.ns_merge # sum_td(td, gs.nthread, 0) \/ co.nr_merge # sum_td(td, gs.nthread, co.b)

\* The sum over the sample groups of their count of base j.
RECURSIVE groups_bc(_, _, _)
groups_bc(m, j, g) == IF g <= 0 THEN 0 ELSE m.hsg[g].bc[j] + groups_bc(m, j, g - 1)

\* C3: once csp_mplp_stat has run for a SNP, the first of the shard or a
\* later one, every sample group has tc = the sum of its five base counts,
\* the site has tc = the sum of its five base counts, and each base count of
\* the site is the sum of the groups' counts of that base.
C3_TotalsAreSums ==
    (sd.pc = "stat" /\ sd.ran) =>
        /\ \A g \in DOMAIN sd.acc.mplp.hsg :
              sd.acc.mplp.hsg[g].tc = Sum5(sd.acc.mplp.hsg[g].bc)
        /\ sd.acc.mplp.tc = Sum5(sd.acc.mplp.bc)
        /\ \A j \in Bases :
              sd.acc.mplp.bc[j] = groups_bc(sd.acc.mplp, j, Cardinality(DOMAIN sd.acc.mplp.hsg))

\* csp_mplp_stat has run for the second SNP of the shard, whose reads went
\* into two sample groups and include the base N.
C3_Witness ==
    /\ sd.pc = "stat" /\ sd.ran /\ sd.n = 2
    /\ sd.acc.mplp.hsg[1].tc > 0 /\ sd.acc.mplp.hsg[2].tc > 0
    /\ sd.acc.mplp.bc[4] > 0

\* The group csp_mplp_push puts the read b of source sd.i into: 0 when the
\* read was not accepted or its barcode is not in the roster.
pushed_group(b) ==
    IF pileup_read_with_fetch(pl[sd.n].pos, b, gs).st # 0 THEN 0
    ELSE push_group(b.cb, sd.acc.mplp, sd.i, gs)

\* C4: with UMI grouping a sample group counts one base per distinct UMI
\* pushed into it at the SNP, however many accepted reads carried that UMI and
\* in whatever order they came: a read whose UMI the group has seen leaves
\* every base count and quality list as it was, and the first read of a UMI
\* adds exactly one to the group's counts.
C4_OnePerUmi ==
    (sd.pc = "reads" /\ use_umi(gs)) =>
        \A g \in DOMAIN sd.acc.mplp.hsg :
            /\ Sum5(sd.acc.mplp.hsg[g].bc) = Cardinality(sd.acc.mplp.hsg[g].hug)
            /\ \A j \in Bases : Len(sd.acc.mplp.hsg[g].qu[j]) = sd.acc.mplp.hsg[g].bc[j]

C4_PushStep ==
    (sd.pc = "reads" /\ sd'.pc = "reads" /\ sd'.k = sd.k + 1 /\ use_umi(gs)
     /\ pushed_group(sd'.b) > 0) =>
        IF sd'.b.umi \in sd.acc.mplp.hsg[pushed_group(sd'.b)].hug
        THEN sd'.acc.mplp = sd.acc.mplp
        ELSE /\ Sum5(sd'.acc.mplp.hsg[pushed_group(sd'.b)].bc)
                  = Sum5(sd.acc.mplp.hsg[pushed_group(sd'.b)].bc) + 1
             /\ \A g \in DOMAIN sd.acc.mplp.hsg \ {pushed_group(sd'.b)} :
                   sd'.acc.mplp.hsg[g] = sd.acc.mplp.hsg[g]

C4_UmiCountedOnce == []C4_OnePerUmi /\ [][C4_PushStep]_vars

\* Three accepted reads of one UMI were pushed into one sample group, which
\* counts one base.
C4_Witness ==
    /\ sd.pc = "reads" /\ use_umi(gs) /\ sd.acc.npushed = 3
    /\ \E g \in DOMAIN sd.acc.mplp.hsg :
          /\ Cardinality(sd.acc.mplp.hsg[g].hug) = 1
          /\ Sum5(sd.acc.mplp.hsg[g].bc) = 1
          /\ \A h \in DOMAIN sd.acc.mplp.hsg \ {g} : sd.acc.mplp.hsg[h].hug = {}

\* C5: on one input, the SNPs that pass with thresholds (minCount', minMAF')
\* are among those that pass with (minCount, minMAF) when minCount' >= minCount
\* and minMAF' >= minMAF.
C5_Monotone == sd.pc = "filtered" => sd.pass_hi \subseteq sd.pass_lo

\* The same for thresholds that are not negative.
C5_MonotoneFromZero ==
    (sd.pc = "filtered" /\ sd.lo.min_count >= 0) => sd.pass_hi \subseteq sd.pass_lo

\* The final files are as main left them: nothing was appended to them.
FinalUntouched == \A b \in Kinds(gs) : fs[<<b>>] = main_files(gs)[<<b>>]

\* The shards of a run of several workers whose worker ended in failure.
FailedShards == {i \in 0..(gs.nthread - 1) : td[i].st \in {"done", "destroyed"} /\ td[i].ret < 0}

\* C11: with several workers, once the worker of any shard has ended in
\* failure (ret < 0) the coordinator never merges: no summary line and no
\* fragment content reaches a final matrix or VCF, which stay as main left
\* them, and the run returns -1, also when every other shard succeeded.
C11_NoMergeAfterFailure ==
    (gs.nthread > 1 /\ FailedShards # {}) =>
        /\ FinalUntouched
        /\ co.pc \notin {"merge", "clean"}
        /\ co.pc = "done" => co.ret = -1

\* The run has returned; the worker of a later shard failed while an earlier
\* shard succeeded and had written a site to its fragments.
C11_Witness ==
    /\ gs.nthread > 1 /\ co.pc = "done"
    /\ \E i, j \in 0..(gs.nthread - 1) :
          /\ j < i /\ i \in FailedShards
          /\ td[j].ret = 0 /\ td[j].ns > 0

\* What pileup_snp_with_fetch returns for the SNP the worker of shard i is at.
worker_state(i) ==
    pileup_snp_with_fetch(pl[td[i].n + td[i].pos + 1], td[i].mplp[1], gs).state

\* The SNPs of the list that belong to shard i.
ShardSnps(i) == (td[i].n + 1)..(td[i].n + td[i].m)

\* C12: when pileup_snp_with_fetch returns 1 for a SNP, the worker's step
\* writes to no file, leaves ns, nr_ad, nr_dp and nr_oth as they were, resets
\* the mplp to its prepared state and goes on to the next SNP of the shard;
\* a shard all of whose SNPs are rejected ends with ret = 0 and ns = 0.
C12_Step ==
    \A i \in Shards :
        (td[i].st = "running" /\ td[i].pos < td[i].m /\ td'[i] # td[i] /\ worker_state(i) = 1) =>
            /\ fs' = fs
            /\ td'[i].ns = td[i].ns
            /\ td'[i].nr_ad = td[i].nr_ad /\ td'[i].nr_dp = td[i].nr_dp
            /\ td'[i].nr_oth = td[i].nr_oth
            /\ td'[i].mplp = << csp_mplp_prepare(gs) >>
            /\ td'[i].st = "running" /\ td'[i].pos = td[i].pos + 1

C12_AllRejected ==
    \A i \in Shards :
        (td[i].st \in {"done", "destroyed"} /\ \A k \in ShardSnps(i) : snp_result(k).state = 1) =>
            td[i].ret = 0 /\ td[i].ns = 0

C12_FilteredSnpIsNoError == []C12_AllRejected /\ [][C12_Step]_vars

\* A worker has ended a shard of two or more SNPs, each of them rejected.
C12_Witness ==
    \E i \in Shards :
        /\ td[i].st = "done" /\ td[i].m >= 2 /\ td[i].ret = 0
        /\ \A k \in ShardSnps(i) : snp_result(k).state = 1

\* C13: whenever check_global_args returns 0 exactly one grouping is active:
\* either cell_tag is set, the barcodes are loaded and sample_ids is NULL, or
\* sample_ids is set and cell_tag is NULL, never both and never neither; and in
\* a run that passed the check csp_mplp_prepare and csp_mplp_push do not take
\* their branch for "neither".
C13_OneGrouping ==
    (sd.pc \in {"checked", "prepared"} /\ sd.ret = 0) =>
        /\ \/ gs.cell_tag # "" /\ gs.barcodes /\ ~gs.sample_ids
           \/ gs.sample_ids /\ gs.cell_tag = ""
        /\ use_barcodes(run_settings(gs)) # use_sid(run_settings(gs))
        /\ sd.pc = "prepared" => sd.names # "none" /\ sd.group >= 0

\* The check passed for a command line that names sample IDs and leaves the
\* cell tag at its default: the check has cleared the tag.
C13_Witness ==
    /\ sd.pc = "prepared" /\ sd.given.cell_tag = "CB" /\ sd.given.sample_ids
    /\ gs.cell_tag = "" /\ sd.names = "sample_ids"

\* C14: for every list size S >= 1 and every W >= 2 workers, once all shards
\* are submitted there are exactly W of them; their ranges [n, n + m) follow
\* each other from 0 to S in shard order, so every SNP is in exactly one
\* shard; shards 0..W-2 hold floor(S / W) SNPs and shard W-1 the rest; with
\* S < W the first W-1 shards are empty, and the run succeeds unless a SNP fails.
C14_Sharding ==
    (gs.nthread > 1 /\ co.pc \notin {"start", "submit"}) =>
        /\ co.ntd = gs.nthread
        /\ \A i \in 0..(gs.nthread - 1) : td[i].st # "none"
        /\ td[0].n = 0
        /\ \A i \in 0..(gs.nthread - 2) :
              /\ td[i].m = Len(pl) \div gs.nthread
              /\ td[i + 1].n = td[i].n + td[i].m
        /\ td[gs.nthread - 1].n + td[gs.nthread - 1].m = Len(pl)
        /\ \A k \in 1..Len(pl) :
              Cardinality({i \in 0..(gs.nthread - 1) : k \in ShardSnps(i)}) = 1
        /\ Len(pl) < gs.nthread =>
              /\ \A i \in 0..(gs.nthread - 2) : td[i].m = 0
              /\ (co.pc = "done" /\ \A k \in 1..Len(pl) : snp_result(k).state >= 0) => co.ret = 0

\* Three workers on a list of two SNPs: two empty shards, and the run has
\* succeeded with both SNPs written by the last shard.
C14_Witness ==
    /\ MultiOk /\ gs.nthread = 3 /\ Len(pl) = 2
    /\ td[0].m = 0 /\ td[1].m = 0 /\ td[2].ns = 2

\* The tmp files of the shards that are in the output directory.
TmpFilesLeft == DOMAIN fs \cap all_tmp_names(gs)

\* C15: when a run of several workers has returned, with 0 or with -1, no
\* tmp file of a shard is left unless a removal failed; and the run returns 0
\* from the clean-up after the merges and -1 from the clean-up after a
\* failure whether the removals succeed or not: a failed removal is a warning.
C15_Removed == (gs.nthread > 1 /\ co.pc = "done" /\ ~co.warn) => TmpFilesLeft = {}

C15_Step ==
    /\ (gs.nthread > 1 /\ co.pc = "clean" /\ co' # co) => co'.pc = "done" /\ co'.ret = 0
    /\ (gs.nthread > 1 /\ co.pc = "fail" /\ co' # co) => co'.pc = "done" /\ co'.ret = -1

C15_WarnSeen == co.pc = "done" /\ co.ret = 0 /\ co.warn /\ TmpFilesLeft # {}

\* C16: a read whose mapping quality is below min_mapq is rejected by
\* pileup_read_with_fetch (2, or 1 when a required tag is missing as well) and
\* the iteration that delivers it changes nothing: the base counts, quality
\* lists and UMI sets of every sample group, npushed and the state of the SNP
\* are as before, so what follows is what follows without that read.
C16_Rejected ==
    sd.pc = "reads" =>
        \A b \in SnpReads(pl[sd.n].pos) :
            b.mapq < gs.min_mapq =>
                /\ pileup_read_with_fetch(pl[sd.n].pos, b, gs).st \in {1, 2}
                /\ read_step(sd.acc, b, sd.i, pl[sd.n].pos, gs) = sd.acc

C16_Step ==
    (sd.pc = "reads" /\ sd'.pc = "reads" /\ sd'.k = sd.k + 1 /\ sd'.b.mapq < gs.min_mapq) =>
        sd'.acc = sd.acc

C16_LowMapqChangesNothing == []C16_Rejected /\ [][C16_Step]_vars

\* A read of low mapping quality was delivered after two reads were pushed.
C16_Witness ==
    /\ sd.pc = "reads" /\ sd.k = 3 /\ sd.b.mapq < gs.min_mapq
    /\ sd.b # NoRead /\ sd.acc.npushed = 2 /\ sd.acc.state = 0

\* C17: when the chromosome of a SNP is absent from one source, only that
\* source is skipped: the SNP is still being read (the other sources are
\* read, the reads pushed so far are kept), and it is then finalized by
\* csp_mplp_stat unless too few reads were pushed or an error occurred.
C17_OnlySourceSkipped ==
    sd.miss =>
        /\ sd.pc = "reads" => sd.acc.state = 0
        /\ sd.pc = "stat" =>
              sd.ran \/ sd.res < 0 \/ LtUnsignedInt(sd.acc.npushed, gs.min_count)

\* What the code does: the SNP as a whole is filtered (state 1) without a
\* call of csp_mplp_stat, whatever the other sources hold; the worker goes on.
C17_SnpFiltered ==
    sd.miss =>
        /\ sd.pc = "reads" => sd.acc.state = 1
        /\ sd.pc = "stat" => sd.res = 1 /\ ~sd.ran

\* The second source lacks the chromosome after the first one gave two reads
\* that were pushed: enough for min_count, and the SNP is dropped.
C17_Seen ==
    /\ sd.pc = "stat" /\ sd.miss /\ sd.i = 1 /\ sd.acc.npushed >= 2
    /\ ~LtUnsignedInt(sd.acc.npushed, gs.min_count) /\ sd.res = 1

\* C18: every SNP that passes csp_mplp_stat has an alt-allele count, the
\* site-wide AD that is written, of at least totalCount x min_maf, with
\* supplied as with inferred ref/alt (min_maf is a percentage here).
C18_AdAboveMaf ==
    (sd.pc = "stat" /\ sd.res = 0) => 100 * sd.acc.mplp.ad >= sd.acc.mplp.tc * gs.min_maf

\* What line 330 tests is the count of the inferred alt allele, which is the
\* AD only when the SNP does not supply ref and alt.
C18_InferredAboveMaf ==
    (sd.pc = "stat" /\ sd.res = 0) =>
        /\ 100 * sd.acc.mplp.bc[sd.acc.mplp.inf_aid] >= sd.acc.mplp.tc * gs.min_maf
        /\ pl[sd.n].ref = "" => sd.acc.mplp.ad = sd.acc.mplp.bc[sd.acc.mplp.inf_aid]

\* A SNP with supplied ref and alt passes under min_maf > 0 with AD = 0.
C18_Seen ==
    /\ sd.pc = "stat" /\ sd.res = 0 /\ gs.min_maf > 0 /\ pl[sd.n].ref # ""
    /\ sd.acc.mplp.ad = 0 /\ sd.acc.mplp.tc > 0

\* The base VCF record of the k-th SNP of the list, a passing one.
BaseRecord(k) == VcfRecords(F_VCF_BASE)[Rank(k)]

\* C19: after a successful run the base VCF holds exactly one record per
\* passing SNP and none for a rejected one; the record of a passing SNP has
\* the SNP's chromosome, POS = the 0-based position of the list + 1, ID ".",
\* QUAL ".", FILTER "PASS", the letters of the ref/alt indices the counts were
\* taken with, and AD/DP/OTH of the site aggregate.
C19_BaseVcfRecord ==
    RunOk =>
        /\ Len(VcfRecords(F_VCF_BASE)) = Cardinality(Passing)
        /\ \A k \in Passing :
              /\ BaseRecord(k).chr = pl[k].chr
              /\ BaseRecord(k).pos = pl[k].pos + 1
              /\ BaseRecord(k).id = "." /\ BaseRecord(k).qual = "."
              /\ BaseRecord(k).filter = "PASS"
              /\ BaseRecord(k).ref = seq_nt16_int2char(snp_result(k).mplp.ref_idx)
              /\ BaseRecord(k).alt = seq_nt16_int2char(snp_result(k).mplp.alt_idx)
              /\ BaseRecord(k).ad = snp_result(k).mplp.ad
              /\ BaseRecord(k).dp = snp_result(k).mplp.dp
              /\ BaseRecord(k).oth = snp_result(k).mplp.oth
              /\ BaseRecord(k).ad = snp_result(k).mplp.bc[snp_result(k).mplp.alt_idx]

\* A run of two workers over three SNPs: one that supplies ref and alt, one
\* that is rejected and one whose alleles are inferred; two records written.
C19_Witness ==
    /\ MultiOk /\ Len(pl) = 3
    /\ Cardinality(Passing) = 2 /\ Len(VcfRecords(F_VCF_BASE)) = 2
    /\ \E k \in Passing : pl[k].ref = "A" /\ BaseRecord(k).ref = "A" /\ BaseRecord(k).alt = "C"
                           /\ BaseRecord(k).ad > 0
    /\ \E k \in Passing : pl[k].ref = "" /\ BaseRecord(k).dp > 0

\* The place of a position of run_mode_with_fetch in the order of the run:
\* idle, sharding, workers running (wait and check), merging, done (clean
\* and the return), with the failure path after all of them.
PhaseRank(pc) ==
    CASE pc = "start" -> 0 [] pc = "submit" -> 1 [] pc = "wait" -> 2 [] pc = "check" -> 3
      [] pc = "merge" -> 4 [] pc = "clean" -> 5 [] pc = "fail" -> 6 [] OTHER -> 7

C20_Inv ==
    /\ co.pc \in {"wait", "check", "merge", "clean"} =>
          co.ntd = gs.nthread /\ \A i \in 0..(gs.nthread - 1) : td[i].st # "none"
    /\ co.pc \in {"merge", "clean"} =>
          \A i \in 0..(gs.nthread - 1) : td[i].st = "done" /\ td[i].ret >= 0
    /\ co.pc = "merge" => co.b \in Kinds(gs)
    /\ co.pc = "clean" => co.b = Cardinality(Kinds(gs)) + 1
    /\ co.pc = "done" /\ co.ret = 0 => co.b = Cardinality(Kinds(gs)) + 1

C20_Step ==
    /\ PhaseRank(co'.pc) >= PhaseRank(co.pc)
    /\ co'.pc # co.pc /\ co'.pc \notin {"fail", "done"} =>
          PhaseRank(co'.pc) = PhaseRank(co.pc) + 1
    /\ co'.pc = "done" /\ co.pc # "done" =>
          \/ co.pc = "clean" /\ co'.ret = 0
          \/ co.pc = "fail" /\ co'.ret = -1
    /\ co.pc = "merge" /\ co'.b # co.b =>
          /\ co'.b = co.b + 1 /\ co'.pc # "fail"
          /\ co.b \in MtxKinds => co'.ns_merge = co.ns /\ co'.nr_merge = td_nr(co, co.b)
    /\ co.pc # "merge" /\ co.pc # "check" => co'.b = co.b
    /\ co.pc \in {"fail", "done"} =>
          /\ \A b \in Kinds(gs) : fs'[<<b>>] = fs[<<b>>]
          /\ \A i \in Shards : td[i].st \in {"none", "destroyed"} => td'[i].st = td[i].st
    /\ co.pc # "submit" => \A i \in Shards : td[i].st = "none" => td'[i].st = "none"

\* C20: a multi-worker run goes through sharding, workers running, merging
\* and done in this order, each phase once and never backwards: every shard
\* is submitted when the wait begins and every worker has returned without
\* an error when the merge begins; it returns 0 only from the clean-up that
\* follows the verified merge of the three matrices and of the VCF file(s);
\* and once the run has failed no file is merged and no shard is submitted.
C20_PhaseOrder == []C20_Inv /\ [][C20_Step]_vars

\* The run has failed in the merge of the second matrix, after the first one
\* was merged and verified.
C20_Witness ==
    /\ co.pc = "fail" /\ co.b = F_MTX_DP /\ co.ntd = gs.nthread
    /\ \A i \in 0..(gs.nthread - 1) : td[i].st = "done" /\ td[i].ret = 0

\* The failure is reached from the sharding, from the running workers and
\* from the merge, and so is the return of 0 with both VCF files merged.
C20_FailedInSharding == co.pc = "fail" /\ co.ntd = 0

C20_FailedInWorkers == co.pc = "fail" /\ co.b = 0 /\ \E i \in Shards : td[i].ret < 0

C20_Returned0 == co.pc = "done" /\ co.ret = 0 /\ gs.is_genotype /\ co.b = F_VCF_CELLS + 1

\* C21: when the worker has returned, on the success path or after a failure
\* of any preparation step or of any SNP, none of its output files is open
\* and no csp_bam_fs it built is left; and whenever pileup_snp_with_fetch has
\* returned (0, 1 or -1) no region iterator is left.
C21_Released ==
    /\ sd.pc = "returned" => sd.fo = {} /\ sd.built = {} /\ ~sd.pileup /\ ~sd.mplp /\ sd.live = 0
    /\ sd.pc \in {"snp", "loop", "fail", "source"} => sd.live = 0
    /\ sd.live \in {0, 1}

\* The worker has returned after an error in the reads of the second source
\* of its second SNP, with every output file opened and every input built.
C21_Witness ==
    /\ sd.pc = "returned" /\ sd.ret = -1 /\ sd.state = -1
    /\ sd.n = 1 /\ sd.i = 1 /\ sd.iter /\ sd.nfs = 2 /\ gs.is_genotype

\* A preparation step has failed with some files open and one input built.
C21_PrepFailed == sd.pc = "returned" /\ sd.ret = -1 /\ sd.nfs = 1 /\ ~sd.iter /\ sd.n = 0

\* C22: a SNP that passes has one pair (ref_idx, alt_idx): the supplied pair
\* when the SNP supplies both ref and alt, whatever the inference picks, and
\* the inferred pair when ref or alt is missing; the site-wide AD/DP/OTH and
\* the AD/DP/OTH of every sample group are taken with that one pair.
C22_OnePair ==
    (sd.pc = "stat" /\ sd.res = 0) =>
        /\ sd.acc.mplp.inf_rid = csp_infer_allele(sd.acc.mplp.bc).rid
        /\ sd.acc.mplp.inf_aid = csp_infer_allele(sd.acc.mplp.bc).aid
        /\ IF pl[sd.n].ref # "" /\ pl[sd.n].alt # ""
           THEN /\ seq_nt16_int2char(sd.acc.mplp.ref_idx) = pl[sd.n].ref
                /\ seq_nt16_int2char(sd.acc.mplp.alt_idx) = pl[sd.n].alt
           ELSE /\ sd.acc.mplp.ref_idx = sd.acc.mplp.inf_rid
                /\ sd.acc.mplp.alt_idx = sd.acc.mplp.inf_aid
        /\ sd.acc.mplp.ad = sd.acc.mplp.bc[sd.acc.mplp.alt_idx]
        /\ sd.acc.mplp.dp = sd.acc.mplp.bc[sd.acc.mplp.ref_idx] + sd.acc.mplp.bc[sd.acc.mplp.alt_idx]
        /\ sd.acc.mplp.oth = sd.acc.mplp.tc - sd.acc.mplp.dp
        /\ \A g \in DOMAIN sd.acc.mplp.hsg :
              /\ sd.acc.mplp.hsg[g].ad = sd.acc.mplp.hsg[g].bc[sd.acc.mplp.alt_idx]
              /\ sd.acc.mplp.hsg[g].dp = sd.acc.mplp.hsg[g].bc[sd.acc.mplp.ref_idx]
                                         + sd.acc.mplp.hsg[g].bc[sd.acc.mplp.alt_idx]
              /\ sd.acc.mplp.hsg[g].oth = sd.acc.mplp.hsg[g].tc - sd.acc.mplp.hsg[g].dp

\* A SNP with the supplied pair A, C passes although the inference picks
\* other bases, and a sample group of its own would infer yet another pair.
C22_Witness ==
    /\ sd.pc = "stat" /\ sd.res = 0 /\ pl[sd.n].ref = "A" /\ pl[sd.n].alt = "C"
    /\ sd.acc.mplp.ref_idx = 0 /\ sd.acc.mplp.alt_idx = 1
    /\ sd.acc.mplp.inf_rid # 0
    /\ \E g \in DOMAIN sd.acc.mplp.hsg :
          sd.acc.mplp.hsg[g].tc > 0 /\ csp_infer_allele(sd.acc.mplp.hsg[g].bc).rid # sd.acc.mplp.inf_rid

\* A SNP that supplies the ref only passes with an inferred ref that is not it.
C22_RefOnlySeen ==
    /\ sd.pc = "stat" /\ sd.res = 0 /\ pl[sd.n].ref = "A" /\ pl[sd.n].alt = ""
    /\ sd.acc.mplp.ref_idx # 0

\* C23: a SNP that passes has a site total count of at least min_count; a
\* SNP with fewer pushed reads than min_count is rejected without
\* csp_mplp_stat being called (no total is summed); and a SNP whose total
\* count is below min_count is rejected by csp_mplp_stat with no allele
\* inferred and no AD/DP/OTH computed, site-wide or for a sample group.
C23_MinCount ==
    sd.pc = "stat" =>
        /\ sd.res = 0 => sd.acc.mplp.tc >= gs.min_count /\ sd.acc.npushed >= gs.min_count
        /\ sd.acc.state = 0 /\ sd.acc.npushed < gs.min_count =>
              sd.res = 1 /\ ~sd.ran /\ sd.acc.mplp.tc = 0
        /\ sd.ran /\ sd.acc.mplp.tc < gs.min_count =>
              /\ sd.res = 1
              /\ sd.acc.mplp.inf_rid = -1 /\ sd.acc.mplp.inf_aid = -1
              /\ sd.acc.mplp.ad = 0 /\ sd.acc.mplp.dp = 0 /\ sd.acc.mplp.oth = 0
              /\ \A g \in DOMAIN sd.acc.mplp.hsg :
                    sd.acc.mplp.hsg[g].ad = 0 /\ sd.acc.mplp.hsg[g].dp = 0

\* With UMIs, min_count reads were pushed but they count once: the SNP gets
\* to csp_mplp_stat and is rejected there.
C23_Witness ==
    /\ sd.pc = "stat" /\ sd.ran /\ sd.res = 1
    /\ sd.acc.npushed >= gs.min_count /\ sd.acc.mplp.tc > 0 /\ sd.acc.mplp.tc < gs.min_count

\* A SNP with too few pushed reads, rejected before csp_mplp_stat.
C23_TooFewPushed ==
    sd.pc = "stat" /\ sd.acc.state = 0 /\ sd.acc.npushed = 1 /\ ~sd.ran /\ sd.res = 1

\* The reference position after the first k operations of a read that starts
\* at 0, and the sum of the lengths of its match-class operations.
RECURSIVE ref_end(_, _)
ref_end(cigar, k) ==
    IF k = 0 THEN 0
    ELSE (IF IsMatchOp(cigar[k][1]) \/ IsRefOnlyOp(cigar[k][1]) THEN cigar[k][2] ELSE 0)
         + ref_end(cigar, k - 1)

RECURSIVE total_match(_, _)
total_match(cigar, k) ==
    IF k = 0 THEN 0
    ELSE (IF IsMatchOp(cigar[k][1]) THEN cigar[k][2] ELSE 0) + total_match(cigar, k - 1)

\* The read of sd has its required tags (lines 371-372) / passes the tests
\* of lines 374-375.
TagsThere == ~(use_umi(gs) /\ sd.b.umi = 0) /\ ~(use_barcodes(gs) /\ sd.b.cb = 0)

MapqFlagOk == sd.b.mapq >= gs.min_mapq /\ sd.b.flag <= gs.max_flag

\* The operations of the read cover the position.
Covers == ref_end(sd.b.cigar, Len(sd.b.cigar)) > sd.pos

\* The first operation whose reference end exceeds the position.
StopIdx ==
    CHOOSE k \in 1..Len(sd.b.cigar) :
        /\ ref_end(sd.b.cigar, k) > sd.pos
        /\ \A j \in 1..(k - 1) : ref_end(sd.b.cigar, j) <= sd.pos

StopOp == sd.b.cigar[StopIdx][1]

Walk == cigar_find(sd.b.cigar, 1, sd.b.pos, 0, 0, sd.pos)

\* C24: for a read that starts at or before pos and whose operations cover
\* pos, the walk stops at the first operation whose reference end exceeds
\* pos; that operation is match-class or a deletion / reference skip; for a
\* match-class one the query offset is the number of query bases the
\* operations before it consume plus pos minus its reference start, it lies
\* inside the query span of the operation, and the base is read there.
C24_CigarWalk ==
    (sd.pc # "read" /\ TagsThere /\ MapqFlagOk /\ Covers) =>
        /\ sd.pc = "returned"
        /\ Walk.brk /\ Walk.k = StopIdx
        /\ IsMatchOp(StopOp) \/ IsRefOnlyOp(StopOp)
        /\ IsRefOnlyOp(StopOp) => sd.p.st = 2
        /\ sd.p.st = 0 =>
              /\ IsMatchOp(StopOp)
              /\ sd.p.qpos = query_len(sd.b.cigar, StopIdx - 1)
                             + (sd.pos - ref_end(sd.b.cigar, StopIdx - 1))
              /\ sd.p.qpos >= query_len(sd.b.cigar, StopIdx - 1)
              /\ sd.p.qpos < query_len(sd.b.cigar, StopIdx)
              /\ sd.p.base = sd.b.seq[sd.p.qpos + 1] /\ sd.p.qual = sd.b.qual[sd.p.qpos + 1]

\* The position is the second base of the third operation, after an
\* insertion and a deletion.
C24_Witness ==
    /\ sd.pc = "returned" /\ sd.p.st = 0 /\ Len(sd.b.cigar) = 3
    /\ sd.b.cigar[1][1] = "I" /\ sd.b.cigar[2][1] = "D" /\ sd.b.cigar[3] = <<"M", 2>>
    /\ sd.pos = 2 /\ sd.p.qpos = 2

\* C25: the filters come in the order UMI tag, cell tag, mapping quality,
\* flag, deletion or reference skip at the position, aligned length, and the
\* first that fails decides: 1 for a missing tag whatever the later filters
\* say, else 2; 0 only when all six pass; a tag is asked for only when its
\* grouping is configured.
C25_FilterOrder ==
    sd.pc # "read" =>
        /\ ~TagsThere => sd.pc = "returned" /\ sd.p.st = 1
        /\ TagsThere /\ ~MapqFlagOk => sd.pc = "returned" /\ sd.p.st = 2
        /\ TagsThere /\ MapqFlagOk /\ Covers =>
              sd.p.st = IF IsRefOnlyOp(StopOp) THEN 2
                        ELSE IF total_match(sd.b.cigar, Len(sd.b.cigar)) < gs.min_len THEN 2
                        ELSE 0
        /\ sd.pc = "returned" /\ sd.p.st = 0 =>
              /\ TagsThere /\ MapqFlagOk
              /\ Covers => IsMatchOp(StopOp)
              /\ sd.build = "" => total_match(sd.b.cigar, Len(sd.b.cigar)) >= gs.min_len
        /\ sd.pc = "returned" /\ sd.p.st = 1 => ~TagsThere

\* A read without its UMI tag, with a low mapping quality, a high flag and
\* an empty CIGAR, in a run with UMIs: the tag decides.
C25_Witness ==
    /\ sd.pc = "returned" /\ sd.p.st = 1 /\ use_umi(gs) /\ sd.b.umi = 0
    /\ sd.b.mapq < gs.min_mapq /\ sd.b.flag > gs.max_flag /\ sd.b.cigar = <<>>

\* A read without a cell tag passes in a run that does not group by barcode.
C25_TagNotAsked == sd.pc = "returned" /\ sd.p.st = 0 /\ sd.b.cb = 0 /\ ~use_barcodes(gs)

\* C26: the length compared with min_len is the sum of the lengths of all
\* match-class operations of the read, those after the operation that covers
\* the position included, so it is the same wherever the position falls.
C26_AlignedLength ==
    (sd.pc = "returned" /\ TagsThere /\ MapqFlagOk /\ Covers /\ IsMatchOp(StopOp)) =>
        /\ sd.p.st = 0 <=> total_match(sd.b.cigar, Len(sd.b.cigar)) >= gs.min_len
        /\ sd.p.st = 0 => sd.p.laln = total_match(sd.b.cigar, Len(sd.b.cigar))

\* The position is in the first operation and the read is long enough only
\* with the match after the deletion.
C26_Witness ==
    /\ sd.pc = "returned" /\ sd.p.st = 0 /\ sd.pos = 0 /\ gs.min_len = 4
    /\ sd.b.cigar = << <<"M", 2>>, <<"D", 1>>, <<"M", 2>> >> /\ sd.p.laln = 4

\* The operation list is empty or its reference span ends at or before pos.
Malformed == ~Covers

\* C27: for a read with malformed operations pileup_read_with_fetch returns
\* a negative result, which the caller takes as an error of the SNP.
C27_MalformedIsError ==
    (sd.pc # "read" /\ TagsThere /\ MapqFlagOk /\ Malformed) =>
        sd.pc = "returned" /\ sd.p.st < 0

\* What the code does with such a read: the assert of line 393 aborts the
\* process, or without the asserts the read is filtered (2) or accepted (0).
C27_AbortOrNoError ==
    (sd.pc # "read" /\ TagsThere /\ MapqFlagOk /\ Malformed) =>
        \/ sd.pc = "aborted" /\ sd.build = "assert"
        \/ sd.pc = "returned" /\ sd.build = "ndebug" /\ sd.p.st \in {0, 2}

\* No read is ever given a negative result.
C27_NeverNegative == sd.pc = "returned" => sd.p.st \in {0, 1, 2}

\* A malformed read is accepted in a build without asserts.
C27_Seen ==
    sd.pc = "returned" /\ Malformed /\ sd.p.st = 0 /\ sd.b.cigar = << <<"M", 2>> >> /\ sd.pos = 2

\* C28: with barcodes, the push of an accepted read whose barcode is not in
\* the roster returns 1, which is no error; it makes no new sample group,
\* leaves the counts, quality lists and UMI set of every group as they were
\* and is not counted in npushed; and the sample groups are the roster from
\* csp_mplp_prepare until the worker ends.
C28_Roster ==
    sd.pc \in {"reads", "stat", "end"} => DOMAIN sd.acc.mplp.hsg = 1..nsample(gs)

C28_Step ==
    (sd.pc = "reads" /\ sd'.pc = "reads" /\ sd'.k = sd.k + 1 /\ use_barcodes(gs)
     /\ pileup_read_with_fetch(pl[sd.n].pos, sd'.b, gs).st = 0
     /\ sd'.b.cb \notin 1..gs.nbarcode) =>
        /\ csp_mplp_push(sd'.b, pileup_read_with_fetch(pl[sd.n].pos, sd'.b, gs),
                         sd.acc.mplp, -1, gs).r = 1
        /\ sd'.acc.mplp = sd.acc.mplp
        /\ sd'.acc.npushed = sd.acc.npushed
        /\ sd'.acc.state = 0

C28_UnknownBarcode == []C28_Roster /\ [][C28_Step]_vars

\* After a read that was pushed, a read with a barcode outside the roster
\* has come, at the second SNP of the shard.
C28_Witness ==
    /\ sd.pc = "reads" /\ use_barcodes(gs) /\ sd.n = 2 /\ sd.k = 2
    /\ sd.b.cb = NumSamples + 1 /\ sd.acc.npushed = 1 /\ sd.acc.state = 0

\* The number of (sample group, UMI) pairs in the UMI sets of the groups 1..g.
RECURSIVE umi_pairs(_, _)
umi_pairs(m, g) == IF g <= 0 THEN 0 ELSE Cardinality(m.hsg[g].hug) + umi_pairs(m, g - 1)

\* C29: without UMIs every accepted read pushed into a roster group adds 1
\* to exactly one base count of exactly one group, so the site total that
\* csp_mplp_stat sums is npushed; with UMIs the UMI set of the group gets
\* the UMI of every pushed read, and the site total is the number of
\* distinct (sample group, UMI) pairs, which is at most npushed.
C29_Total ==
    (sd.pc = "stat" /\ sd.ran) =>
        IF use_umi(gs)
        THEN /\ sd.acc.mplp.tc = umi_pairs(sd.acc.mplp, Cardinality(DOMAIN sd.acc.mplp.hsg))
             /\ sd.acc.mplp.tc <= sd.acc.npushed
        ELSE sd.acc.mplp.tc = sd.acc.npushed

C29_Step ==
    (sd.pc = "reads" /\ sd'.pc = "reads" /\ sd'.k = sd.k + 1 /\ pushed_group(sd'.b) > 0) =>
        /\ sd'.acc.npushed = sd.acc.npushed + 1
        /\ \A g \in DOMAIN sd.acc.mplp.hsg \ {pushed_group(sd'.b)} :
              sd'.acc.mplp.hsg[g] = sd.acc.mplp.hsg[g]
        /\ IF use_umi(gs)
           THEN sd'.acc.mplp.hsg[pushed_group(sd'.b)].hug
                   = sd.acc.mplp.hsg[pushed_group(sd'.b)].hug \cup {sd'.b.umi}
           ELSE \E j \in Bases :
                   sd'.acc.mplp.hsg[pushed_group(sd'.b)].bc
                      = [sd.acc.mplp.hsg[pushed_group(sd'.b)].bc EXCEPT ![j] = @ + 1]

C29_TotalIsPushed == []C29_Total /\ [][C29_Step]_vars

\* With UMIs three reads were pushed, two of them with the same group and
\* UMI: the total is 2.
C29_Witness ==
    /\ sd.pc = "stat" /\ sd.ran /\ use_umi(gs)
    /\ sd.acc.npushed = 3 /\ sd.acc.mplp.tc = 2

\* Without UMIs three reads were pushed into two groups: the total is 3.
C29_NoUmiSeen ==
    /\ sd.pc = "stat" /\ sd.ran /\ ~use_umi(gs) /\ sd.acc.npushed = 3 /\ sd.acc.mplp.tc = 3
    /\ sd.acc.mplp.hsg[1].tc > 0 /\ sd.acc.mplp.hsg[2].tc > 0

\* C30: with UMIs, what a sample group records for a UMI is the base and the
\* quality of the first accepted read with that UMI in the order the reads
\* come: that read adds 1 to the count of its base and its quality to the
\* list of that base; a later read of the group with the same UMI, whatever
\* its base, changes no base count and no quality list.
C30_Step ==
    (sd.pc = "reads" /\ sd'.pc = "reads" /\ sd'.k = sd.k + 1 /\ use_umi(gs)
     /\ pushed_group(sd'.b) > 0) =>
        IF sd'.b.umi \in sd.acc.mplp.hsg[pushed_group(sd'.b)].hug
        THEN \A g \in DOMAIN sd.acc.mplp.hsg :
                /\ sd'.acc.mplp.hsg[g].bc = sd.acc.mplp.hsg[g].bc
                /\ sd'.acc.mplp.hsg[g].qu = sd.acc.mplp.hsg[g].qu
        ELSE /\ sd'.acc.mplp.hsg[pushed_group(sd'.b)].bc
                  = [sd.acc.mplp.hsg[pushed_group(sd'.b)].bc
                        EXCEPT ![seq_nt16_idx2int(sd'.b.seq[2])] = @ + 1]
             /\ sd'.acc.mplp.hsg[pushed_group(sd'.b)].qu
                  = [sd.acc.mplp.hsg[pushed_group(sd'.b)].qu
                        EXCEPT ![seq_nt16_idx2int(sd'.b.seq[2])] = Append(@, sd'.b.qual[2])]

C30_FirstReadOfUmi == [][C30_Step]_vars

\* After a read with the base A, a read of the same group and UMI with the
\* base C has come: the group counts one A and no C.
C30_Witness ==
    /\ sd.pc = "reads" /\ use_umi(gs) /\ sd.k = 2 /\ sd.acc.npushed = 2
    /\ sd.b.seq[2] = 2
    /\ \E g \in DOMAIN sd.acc.mplp.hsg :
          /\ sd.acc.mplp.hsg[g].hug = {sd.b.umi}
          /\ sd.acc.mplp.hsg[g].bc[0] = 1 /\ sd.acc.mplp.hsg[g].bc[1] = 0
          /\ \A h \in DOMAIN sd.acc.mplp.hsg \ {g} : sd.acc.mplp.hsg[h].hug = {}

\* ------------------------------------------------------------------ C31
\* Every count, total and UMI set of the sample groups and of the site
\* aggregate is zero or empty.
EmptyMplp(m) ==
    /\ \A g \in DOMAIN m.hsg : m.hsg[g] = EmptyPlp
    /\ m.bc = ZeroBc /\ m.tc = 0
    /\ m.ad = 0 /\ m.dp = 0 /\ m.oth = 0
    /\ m.nr_ad = 0 /\ m.nr_dp = 0 /\ m.nr_oth = 0

\* The worker has entered a SNP and has not yet asked for a read.
AtSnpStart == sd.pc = "reads" /\ sd.i = 0 /\ sd.k = 0 /\ sd.acc.state = 0 /\ sd.b = NoRead

C31_Step ==
    (sd.pc = "stat" /\ sd'.pc = "reads") =>
        /\ sd'.n = sd.n + 1
        /\ sd'.acc.npushed = 0
        /\ EmptyMplp(sd'.acc.mplp)

\* C31: whenever the worker starts a SNP of its shard, the counts, totals,
\* AD/DP/OTH and UMI set of every sample group and the bc, tc, AD/DP/OTH and
\* nr_ad/nr_dp/nr_oth of the site aggregate are zero or empty; the step from
\* a finished SNP to the next leaves them so after a passing SNP and after a
\* rejected one, also when csp_mplp_stat had already summed the totals.
C31_EmptyAtSnpStart ==
    /\ [](AtSnpStart => EmptyMplp(sd.acc.mplp) /\ sd.acc.npushed = 0)
    /\ [][C31_Step]_vars

\* A SNP that csp_mplp_stat rejected after summing its totals is about to be
\* followed by the next SNP of the shard.
C31_Witness ==
    /\ sd.pc = "stat" /\ sd.res = 1 /\ sd.ran /\ sd.n < Len(pl)
    /\ sd.acc.mplp.tc > 0
    /\ \E g \in DOMAIN sd.acc.mplp.hsg : sd.acc.mplp.hsg[g].tc > 0 /\ sd.acc.mplp.hsg[g].hug # {}

\* ------------------------------------------------------------------ C32
\* The SNP with the base quality of every read replaced by the value
\* get_qual_vector refuses.
bad_qual(snp) ==
    [snp EXCEPT !.src = [i \in DOMAIN snp.src |->
        [snp.src[i] EXCEPT !.reads = [k \in DOMAIN snp.src[i].reads |->
            [snp.src[i].reads[k] EXCEPT !.qual = <<30, 255, 30>>]]]]]

\* The k-th SNP of a list: a passing site, a site whose read iteration ends
\* in an error, a site whose reads carry a malformed quality, or a site
\* with too few reads.
hard_snp(kind, k, g) ==
    IF kind = "qual" THEN bad_qual(mk_snp(SiteBoth, k, g))
    ELSE IF kind = "io" THEN mk_snp(SiteIoError, k, g)
    ELSE IF kind = "few" THEN mk_snp(SiteTooFew, k, g)
    ELSE mk_snp(SiteBoth, k, g)

InitHard ==
    /\ gs \in {settings(w, ge, bc, um) : w \in 1..MaxThreads, ge \in BOOLEAN,
                                         bc \in BOOLEAN, um \in BOOLEAN}
    /\ pl \in {[k \in DOMAIN l |-> hard_snp(l[k], k, gs)] :
                  l \in UNION {[1..n -> {"ok", "io", "qual"}] : n \in 1..MaxSnps}}
    /\ fs = main_files(gs)
    /\ open = {}
    /\ td = [i \in Shards |-> NoTd]
    /\ co = CoInit
    /\ sd = NoSd

SpecHard == InitHard /\ [][Next]_vars

\* The SNPs of the list for which pileup_snp_with_fetch returns an error.
HardErrors == {k \in DOMAIN pl : snp_result(k).state < 0}

C32_Step ==
    \A i \in Shards :
        (td[i].st = "running" /\ td[i].pos < td[i].m /\ td'[i] # td[i] /\ worker_state(i) < 0) =>
            /\ fs' = fs
            /\ td'[i].st = "done" /\ td'[i].ret = -1
            /\ td'[i].pos = td[i].pos
            /\ td'[i].ns = td[i].ns
            /\ td'[i].nr_ad = td[i].nr_ad /\ td'[i].nr_dp = td[i].nr_dp
            /\ td'[i].nr_oth = td[i].nr_oth

\* A worker that has ended stays at the SNP it ended at.
C32_Stopped ==
    \A i \in Shards :
        (td[i].st \in {"done", "destroyed"} /\ td'[i] # td[i]) =>
            td'[i] = [td[i] EXCEPT !.st = "destroyed"]

C32_Ended ==
    /\ \A i \in Shards :
          (td[i].st \in {"done", "destroyed"} /\ ShardSnps(i) \cap HardErrors # {}) =>
              /\ td[i].ret = -1
              /\ td[i].n + td[i].pos + 1 \in HardErrors
              /\ \A k \in ShardSnps(i) \cap HardErrors : k >= td[i].n + td[i].pos + 1
    /\ (co.pc = "done" /\ HardErrors # {}) => co.ret = -1

\* C32: when pileup_snp_with_fetch returns an error for a SNP (a read
\* iteration that ends in an error, a malformed quality found by
\* csp_mplp_stat), the worker's step writes to no file, counts nothing and
\* ends the worker at that SNP with ret = -1; an ended worker never moves
\* on, so no later SNP of the shard is processed and the SNP is not tried
\* again; and the run returns -1.
C32_HardErrorStops == []C32_Ended /\ [][C32_Step /\ C32_Stopped]_vars

\* The run has returned after a worker stopped at a SNP whose reads carry a
\* malformed quality, with a passing SNP before it and one more SNP after it
\* in its shard.
C32_Witness ==
    /\ co.pc = "done" /\ co.ret = -1 /\ gs.is_genotype
    /\ \E i \in Shards :
          /\ td[i].st = "destroyed" /\ td[i].ret = -1
          /\ td[i].pos >= 1 /\ td[i].pos + 1 < td[i].m /\ td[i].ns >= 1
          /\ pl[td[i].n + td[i].pos + 1].src[1].reads # <<>>
          /\ pl[td[i].n + td[i].pos + 1].src[1].reads[1].qual[2] = 255

\* ------------------------------------------------------------------ C33
\* The number of sample groups whose value for matrix b is not zero.
NonZero(m, b) == Cardinality({g \in DOMAIN m.hsg : plp_field(m.hsg[g], b) # 0})

site_nr(m, b) == IF b = F_MTX_AD THEN m.nr_ad ELSE IF b = F_MTX_DP THEN m.nr_dp ELSE m.nr_oth

\* The record lines in the output f of a shard: the lines of a fragment
\* that are not boundaries or, for the single worker, the lines after the
\* header of the final matrix.
shard_lines(files, f) ==
    IF f.is_tmp THEN Len(SelectSeq(files[f.fn], IsText))
    ELSE Len(files[f.fn]) - Len(MtxHeader)

\* The site aggregate r of a passing SNP counts the groups with a nonzero
\* value, and shard i adds these counts to its own.
C33_Passed(i, m) ==
    \A b \in MtxKinds :
        /\ site_nr(m, b) = NonZero(m, b)
        /\ site_nr(m, b) \in 0..nsample(gs)
        /\ td_nr(td'[i], b) = td_nr(td[i], b) + NonZero(m, b)

C33_Step ==
    \A i \in Shards :
        (td[i].st = "running" /\ td[i].pos < td[i].m /\ td'[i] # td[i]) =>
            LET r == pileup_snp_with_fetch(pl[td[i].n + td[i].pos + 1], td[i].mplp[1], gs)
            IN  IF r.state = 0 THEN C33_Passed(i, r.mplp)
                ELSE \A b \in MtxKinds : td_nr(td'[i], b) = td_nr(td[i], b)

C33_Lines ==
    \A i \in Shards : \A b \in MtxKinds :
        (td[i].st \in {"running", "done"} /\ co.pc \notin {"rewrite", "done"}) =>
            /\ shard_lines(fs, td[i].out[b]) = td_nr(td[i], b)
            /\ td[i].pos = 0 => td_nr(td[i], b) = 0

\* C33: for every passing SNP nr_ad, nr_dp and nr_oth of the site are the
\* numbers of sample groups with a nonzero AD, DP and OTH, each between 0 and
\* the size of the roster; the nr_ad, nr_dp and nr_oth of a shard start at
\* zero, grow by these numbers with every passing SNP and by nothing
\* otherwise, and as many record lines stand in the shard's AD, DP and OTH
\* output.
C33_RecordCounts == []C33_Lines /\ [][C33_Step]_vars

\* A worker has ended a shard with two passing SNPs whose AD, DP and OTH
\* record counts differ from each other.
C33_Witness ==
    \E i \in Shards :
        /\ td[i].st = "done" /\ td[i].ret = 0 /\ td[i].ns >= 2
        /\ co.pc \notin {"rewrite", "done"}
        /\ td[i].nr_ad >= 2 /\ td[i].nr_ad < td[i].nr_dp /\ td[i].nr_oth >= 1
        /\ td[i].nr_oth # td[i].nr_ad

\* ------------------------------------------------------------------ C34
\* Runs on lists of passing sites, of filtered sites and of sites whose read
\* iteration fails.
InitLive ==
    /\ gs \in {settings(w, FALSE, bc, FALSE) : w \in 1..MaxThreads, bc \in BOOLEAN}
    /\ pl \in {[k \in DOMAIN l |-> hard_snp(l[k], k, gs)] :
                  l \in UNION {[1..n -> {"ok", "io", "few"}] : n \in 1..MaxSnps}}
    /\ fs = main_files(gs)
    /\ open = {}
    /\ td = [i \in Shards |-> NoTd]
    /\ co = CoInit
    /\ sd = NoSd

\* The worker of shard i is in the loop of lines 554-590.
InSnpLoop(i) == td[i].st = "running" /\ td[i].pos < td[i].m

\* Weak fairness of WorkerSnp(i), which is enabled exactly in the loop: a
\* worker is not left in the loop for ever without taking its step.
FairSnp(i) == []<>(~InSnpLoop(i)) \/ []<><<WorkerSnp(i)>>_vars

\* The thread of run_mode_with_fetch and the threads of the pool are
\* scheduled: a step that stays possible is taken.
SpecLive ==
    /\ InitLive /\ [][Next]_vars
    /\ WF_vars(Coordinator)
    /\ \A i \in Shards : WF_vars(WorkerStart(i)) /\ WF_vars(WorkerEnd(i)) /\ FairSnp(i)

\* A worker goes through the SNPs of its shard one by one, forwards, and
\* never beyond the last; once it has ended it does not move.
C34_Step ==
    \A i \in Shards :
        /\ (td[i].st = "running" /\ td'[i].st = "running") =>
              /\ td'[i].pos \in {td[i].pos, td[i].pos + 1}
              /\ td'[i].pos <= td[i].m
              /\ td'[i].n = td[i].n /\ td'[i].m = td[i].m
        /\ (td[i].st = "running" /\ td'[i].st = "done") => td'[i].pos = td[i].pos
        /\ (td[i].st \in {"done", "destroyed"}) =>
              td'[i].st \in {"done", "destroyed"} /\ td'[i].pos = td[i].pos

\* The iteration of the loop on the SNP the worker of shard i is at ends the
\* worker or takes it to the next SNP.
SnpMoves(i, d) == d.st = "done" \/ (d.st = "running" /\ d.pos = td[i].pos + 1)

C34_Bounds ==
    /\ \A i \in Shards : td[i].pos <= td[i].m
    /\ \A i \in Shards : InSnpLoop(i) => SnpMoves(i, worker_snp(td[i], fs, pl, gs).td)
    /\ co.pc = "done" => co.ret \in {0, -1}
    /\ co.pc = "done" => \A i \in Shards : td[i].st \notin {"queued", "running"}

\* The order of the positions of run_mode_with_fetch.
RunRank(pc) ==
    CASE pc = "start" -> 0 [] pc = "submit" -> 1 [] pc = "wait" -> 2 [] pc = "check" -> 3
      [] pc = "direct" -> 3 [] pc = "merge" -> 4 [] pc = "rewrite" -> 4 [] pc = "clean" -> 5
      [] pc = "fail" -> 6 [] OTHER -> 7

\* Once every worker has ended the coordinator goes forwards through its
\* phases only.
C34_Forward ==
    (\A i \in Shards : td[i].st \notin {"queued", "running"}) /\ co.pc \notin {"start", "submit"}
        => (co'.pc = co.pc \/ RunRank(co'.pc) > RunRank(co.pc))

\* C34: every run ends and returns 0 or -1.  A worker visits the SNPs of its
\* shard in increasing order, each at most once, and takes at most m steps
\* through them; after the workers have ended the coordinator only moves
\* forwards through its merge and cleanup phases; with workers and
\* coordinator scheduled fairly the run reaches its return.
C34_Terminates ==
    /\ []C34_Bounds
    /\ [][C34_Step /\ C34_Forward]_vars
    /\ <>(co.pc = "done")

\* A run of MaxThreads workers on MaxSnps SNPs has returned 0.
C34_Witness ==
    /\ co.pc = "done" /\ co.ret = 0
    /\ gs.nthread = MaxThreads /\ Len(pl) = MaxSnps
    /\ \A i \in 0..(gs.nthread - 1) : td[i].st = "destroyed" /\ td[i].pos = td[i].m /\ td[i].m >= 1

\* ------------------------------------------------------------------ C35
\* Lines 839-841, 847-849, 853-855 and 861-863 once a shard has been handed
\* to the pool: thdata_init returns NULL, or thpool_add_work fails for the
\* thread_data just created (which the fprintf then counts in ntd).  The run
\* goes to fail without waiting for the pool.
CoSubmitFailLate ==
    /\ co.pc = "submit"
    /\ co.ntd > 0
    /\ \/ /\ co' = [co EXCEPT !.pc = "fail"]
          /\ td' = td
       \/ /\ co' = [co EXCEPT !.pc = "fail", !.ntd = @ + 1]
          /\ td' = [td EXCEPT ![co.ntd] =
                      [new_td(co.npos, shard_m(Len(pl), gs.nthread, co.ntd, co.npos),
                              shard_files(gs, co.ntd)) EXCEPT !.st = "created"]]
    /\ UNCHANGED <<gs, pl, fs, open, sd>>

\* thdata_destroy of the ntd structures: a thread_data whose worker is
\* queued or running is freed under the worker.
free_td(t, ntd) ==
    [i \in Shards |->
        IF i >= ntd THEN t[i]
        ELSE IF t[i].st \in {"queued", "running"} THEN [t[i] EXCEPT !.st = "freed"]
        ELSE [t[i] EXCEPT !.st = "destroyed"]]

\* Lines 928-953 while a worker is queued or running.
CoFailLate ==
    /\ co.pc = "fail"
    /\ \E i \in 0..(co.ntd - 1) : td[i].st \in {"queued", "running"}
    /\ td' = free_td(td, co.ntd)
    /\ fs' = destroy_all(fs, gs, {}, 1)
    /\ open' = {h \in open : h.by # Coord}
    /\ co' = [co EXCEPT !.pc = "done", !.ret = -1]
    /\ UNCHANGED <<gs, pl, sd>>

\* A worker on a thread_data that was freed reads freed memory: it crashes,
\* or it ends with the process unnoticed, or it opens its tmp files, which
\* are created again after destroy_tmp_files removed them.
WorkerFreed(i) ==
    /\ td[i].st = "freed"
    /\ \/ /\ td' = [td EXCEPT ![i].st = "crashed"]
          /\ fs' = fs
       \/ /\ td' = [td EXCEPT ![i].st = "destroyed"]
          /\ fs' = fs
       \/ /\ td' = [td EXCEPT ![i].st = "destroyed"]
          /\ fs' = fs_open_all(fs, td[i].out, 1)
    /\ open' = open \ handles(i, td[i].out)
    /\ UNCHANGED <<gs, pl, co, sd>>

InitSubmit ==
    /\ gs \in {settings(w, FALSE, bc, FALSE) : w \in 2..MaxThreads, bc \in BOOLEAN}
    /\ pl \in {[k \in DOMAIN l |-> mk_snp(l[k], k, gs)] : l \in PhaseSiteLists}
    /\ fs = main_files(gs)
    /\ open = {}
    /\ td = [i \in Shards |-> NoTd]
    /\ co = CoInit
    /\ sd = NoSd

NextSubmit ==
    \/ CoStart \/ CoSubmit \/ CoSubmitFail \/ CoSubmitFailLate \/ CoWait \/ CoCheck
    \/ CoMergeMtx \/ CoMergeVcf \/ CoClean \/ CoFail \/ CoFailLate
    \/ \E i \in Shards : Worker(i) \/ WorkerFreed(i)

SpecSubmit == InitSubmit /\ [][NextSubmit]_vars

C35_Step ==
    \A i \in Shards :
        td[i].st \in {"queued", "running"} =>
            /\ td'[i].st \in {"queued", "running", "done"}
            /\ \A b \in Kinds(gs) : td[i].out[b].fn \in DOMAIN fs => td[i].out[b].fn \in DOMAIN fs'

\* C35: the coordinator of a multi-worker run never destroys the
\* thread_data of a shard, nor removes its tmp files, while the worker of
\* that shard is queued or running, also when creating or submitting a
\* later shard fails after earlier shards were handed to the pool.
C35_NoDestroyWhileRunning == [][C35_Step]_vars

\* The same for the runs in which every shard was handed to the pool.
C35_Waited ==
    [][co.pc \notin {"submit", "fail"} \/ (\A i \in Shards : td[i].st \notin {"queued", "running"})
           => C35_Step]_vars

\* A worker found its thread_data freed and left tmp files behind after the
\* run had returned -1.
C35_FreedSeen ==
    /\ co.pc = "done" /\ co.ret = -1
    /\ \E i \in Shards : td[i].st = "destroyed" /\ TmpFilesLeft # {}

\* ------------------------------------------------------------------ C36
\* One worker followed read by read on SNPs that supply no alleles, two
\* different alleles, or the same base as ref and as alt (lines 437-438 take
\* the two letters of the list as they are).
InitAllele ==
    /\ gs \in {settings(1, FALSE, bc, um) : bc \in BOOLEAN, um \in BOOLEAN}
    /\ pl \in {[k \in 1..MaxSnps |-> snp_header(k, ra[1], ra[2])] :
                  ra \in {<<"", "">>, <<"A", "C">>, <<"A", "A">>}}
    /\ fs = main_files(gs)
    /\ open = {}
    /\ td = [i \in Shards |-> NoTd]
    /\ co = CoInit
    /\ sd = snp_enter(1, csp_mplp_prepare(gs))

SpecAllele == InitAllele /\ [][NextSnp]_vars

\* The sum over the sample groups of their value for matrix b.
RECURSIVE groups_field(_, _, _)
groups_field(m, b, g) == IF g <= 0 THEN 0 ELSE plp_field(m.hsg[g], b) + groups_field(m, b, g - 1)

\* AD <= DP <= total count and DP + OTH = total count.
Ordered(ad, dp, oth, tc) == 0 <= ad /\ ad <= dp /\ dp <= tc /\ dp + oth = tc /\ oth >= 0

C36_At(m) ==
    /\ \A b \in MtxKinds : groups_field(m, b, Cardinality(DOMAIN m.hsg)) = plp_field(m, b)
    /\ Ordered(m.ad, m.dp, m.oth, m.tc)
    /\ \A g \in DOMAIN m.hsg : Ordered(m.hsg[g].ad, m.hsg[g].dp, m.hsg[g].oth, m.hsg[g].tc)

\* C36: for every passing SNP the AD, DP and OTH of the sample groups add up
\* to the AD, DP and OTH of the site, and for the site and for every sample
\* group AD <= DP <= total count and DP + OTH = total count, so that OTH is
\* not negative, whether ref and alt were supplied or inferred.
C36_DepthsConsistent == (sd.pc = "stat" /\ sd.res = 0) => C36_At(sd.acc.mplp)

\* The same for the SNPs whose ref and alt indices differ.
C36_DistinctAlleles ==
    (sd.pc = "stat" /\ sd.res = 0 /\ sd.acc.mplp.ref_idx # sd.acc.mplp.alt_idx) =>
        C36_At(sd.acc.mplp)

\* A SNP that supplies the same base as ref and alt passes with DP above the
\* total count.
C36_Seen ==
    /\ sd.pc = "stat" /\ sd.res = 0 /\ pl[sd.n].ref = "A" /\ pl[sd.n].alt = "A"
    /\ sd.acc.mplp.dp > sd.acc.mplp.tc /\ sd.acc.mplp.oth < 0

\* ------------------------------------------------------------------ C37
\* totalSites in the summary line of the final matrix b.
TotalSites(b) == fs[<<b>>][Len(MtxHeader) + 1][1]

\* The passing SNP with the site ordinal o.
SnpOfOrdinal(o) == CHOOSE k \in Passing : Rank(k) = o

C37_Cells ==
    /\ Len(VcfRecords(F_VCF_CELLS)) = Len(VcfRecords(F_VCF_BASE))
    /\ \A o \in 1..Len(VcfRecords(F_VCF_CELLS)) :
          /\ VcfRecords(F_VCF_CELLS)[o].chr = VcfRecords(F_VCF_BASE)[o].chr
          /\ VcfRecords(F_VCF_CELLS)[o].pos = VcfRecords(F_VCF_BASE)[o].pos
    /\ \A b \in MtxKinds : \A j \in 1..Len(MtxRecords(b)) :
          LET rec == MtxRecords(b)[j]
          IN  plp_field(VcfRecords(F_VCF_CELLS)[rec[1]].cells[rec[2]], b) = rec[3]

\* C37: after a successful run the base VCF holds as many records as the
\* summary line of each of the three matrices gives as totalSites; the i-th
\* record is that of the SNP with the site ordinal i; when genotyping the
\* cells VCF holds a record for the same SNPs in the same order, and the
\* value of every matrix record with ordinal i and sample group g stands in
\* column g of the i-th record of the cells VCF.
C37_VcfMatchesMatrix ==
    RunOk =>
        /\ \A b \in MtxKinds : TotalSites(b) = Len(VcfRecords(F_VCF_BASE))
        /\ \A o \in 1..Len(VcfRecords(F_VCF_BASE)) :
              /\ \E k \in Passing : Rank(k) = o
              /\ VcfRecords(F_VCF_BASE)[o].chr = pl[SnpOfOrdinal(o)].chr
              /\ VcfRecords(F_VCF_BASE)[o].pos = pl[SnpOfOrdinal(o)].pos + 1
        /\ gs.is_genotype => C37_Cells

\* Several workers, genotyping: a rejected SNP lies between passing ones, and
\* the last AD record has the ordinal of the last VCF record.
C37_Witness ==
    /\ MultiOk /\ gs.is_genotype
    /\ Len(VcfRecords(F_VCF_BASE)) >= 2 /\ Len(VcfRecords(F_VCF_BASE)) < Len(pl)
    /\ 1 \in Passing /\ 2 \notin Passing
    /\ Len(MtxRecords(F_MTX_AD)) >= 1
    /\ MtxRecords(F_MTX_AD)[Len(MtxRecords(F_MTX_AD))][1] = Len(VcfRecords(F_VCF_CELLS))

\* ------------------------------------------------------------------ C38
\* The reads of the SNP that go into sample group g: with barcodes the reads
\* of the one source that carry the barcode g, with sample IDs the reads of
\* source g.
group_reads(snp, g) ==
    IF use_barcodes(gs) THEN SelectSeq(snp.src[1].reads, LAMBDA b : b.cb = g)
    ELSE snp.src[g].reads

\* The UMIs whose first read among R shows the base with index j.
first_umis(R, j) ==
    {u \in 1..MaxUmi :
        \E x \in 1..Len(R) :
            /\ R[x].umi = u /\ seq_nt16_idx2int(R[x].seq[2]) = j
            /\ \A y \in 1..(x - 1) : R[y].umi # u}

\* What the sample groups count for the SNP when UMIs are told apart within
\* one sample group and one SNP, and nowhere else.
C38_Counts(snp, m) ==
    \A g \in DOMAIN m.hsg : \A j \in Bases :
        m.hsg[g].bc[j] = Cardinality(first_umis(group_reads(snp, g), j))

C38_Step ==
    \A i \in Shards :
        (use_umi(gs) /\ td[i].st = "running" /\ td[i].pos < td[i].m /\ td'[i] # td[i]) =>
            LET r == pileup_snp_with_fetch(pl[td[i].n + td[i].pos + 1], td[i].mplp[1], gs)
            IN  r.state >= 0 => C38_Counts(pl[td[i].n + td[i].pos + 1], r.mplp)

\* C38: with UMIs, the counts a worker's step takes for a SNP whose reads
\* were all read are, for every sample group, one base per UMI of the reads of that group at that SNP,
\* the base of the first of them: a UMI seen in another sample group, or at
\* an earlier SNP of the shard, suppresses no read.
C38_UmiScope == [][C38_Step]_vars

\* With barcodes and UMIs a worker is at a SNP whose reads carry one UMI in
\* two sample groups, after a SNP of its shard with reads of the same groups
\* and UMIs.
C38_Witness ==
    /\ use_umi(gs) /\ use_barcodes(gs)
    /\ \E i \in Shards :
          /\ td[i].st = "running" /\ td[i].pos >= 1 /\ td[i].pos < td[i].m /\ td[i].ns >= 1
          /\ Len(group_reads(pl[td[i].n + td[i].pos], 1)) >= 2
          /\ Len(group_reads(pl[td[i].n + td[i].pos + 1], 1)) >= 2
          /\ \E x \in 1..Len(group_reads(pl[td[i].n + td[i].pos + 1], 1)) :
                group_reads(pl[td[i].n + td[i].pos + 1], 1)[x].umi
                    = group_reads(pl[td[i].n + td[i].pos + 1], 2)[1].umi
          /\ group_reads(pl[td[i].n + td[i].pos], 1)[1].umi
                = group_reads(pl[td[i].n + td[i].pos + 1], 1)[1].umi

\* ------------------------------------------------------------------ C39
\* The reads of the k-th SNP pushed under the settings g (lines 439-459).
pushed_under(k, g) == sources_loop(snp_begin(pl[k], csp_mplp_prepare(g)), pl[k], 0, g)

\* npushed and the total count of the k-th SNP are not below min_count,
\* compared as integers.
CountsReach(k, g) ==
    /\ pushed_under(k, g).state = 0
    /\ pushed_under(k, g).npushed >= g.min_count
    /\ stat_sums(pushed_under(k, g).mplp).tc >= g.min_count

\* C39: min_count compares as an integer for every value the command line
\* gives, zero and negative ones included: a SNP whose npushed and total
\* count are not below min_count is not rejected by the count filters, so
\* without a MAF threshold it passes.
C39_IntegerCompare ==
    (sd.pc = "filtered" /\ sd.lo.min_maf = 0) =>
        \A k \in DOMAIN pl : CountsReach(k, sd.lo) => k \in sd.pass_lo

\* The same for thresholds that are not negative.
C39_FromZero ==
    (sd.pc = "filtered" /\ sd.lo.min_maf = 0 /\ sd.lo.min_count >= 0) =>
        \A k \in DOMAIN pl : CountsReach(k, sd.lo) => k \in sd.pass_lo

\* Under --minCOUNT -1 a SNP with two counted reads is rejected.
C39_Seen ==
    /\ sd.pc = "filtered" /\ sd.lo.min_maf = 0 /\ sd.lo.min_count = -1
    /\ \E k \in DOMAIN pl :
          /\ CountsReach(k, sd.lo) /\ pushed_under(k, sd.lo).npushed >= 2
          /\ k \notin sd.pass_lo

====
